---- MODULE Spec2Model ----
(***************************************************************************)
(* Model of the NPJP transaction importer: the field validators, the       *)
(* record validator and TransactionImporter.load.                          *)
(*                                                                         *)
(* Text is a sequence of one-character strings, so that str.strip(),       *)
(* str.lower(), Decimal(text) and datetime.strptime(text, "%Y-%m-%d") are  *)
(* computed character by character.  Python's None is the value NoneVal.   *)
(***************************************************************************)
EXTENDS Integers, Sequences, FiniteSets, TLC

\* ------------------------------------------------------------------------
\* Bounds of the model
\* ------------------------------------------------------------------------
MaxRows == 6        \* data rows read by one load call
MaxAmountLen == 3   \* length of the amount texts enumerated for validate_amount

\* ------------------------------------------------------------------------
\* Text primitives
\* ------------------------------------------------------------------------
NoneVal == <<"<None>">>

Whitespace == {" ", "\t"}

DigitChars == <<"0", "1", "2", "3", "4", "5", "6", "7", "8", "9">>

UpperChars == <<"A", "B", "C", "D", "E", "F", "G", "H", "I", "J", "K", "L", "M",
                "N", "O", "P", "Q", "R", "S", "T", "U", "V", "W", "X", "Y", "Z">>

LowerChars == <<"a", "b", "c", "d", "e", "f", "g", "h", "i", "j", "k", "l", "m",
                "n", "o", "p", "q", "r", "s", "t", "u", "v", "w", "x", "y", "z">>

IsDigit(c) == \E i \in 1..10 : DigitChars[i] = c

DigitVal(c) == (CHOOSE i \in 1..10 : DigitChars[i] = c) - 1

LowerChar(c) ==
    IF \E i \in 1..26 : UpperChars[i] = c
    THEN LowerChars[CHOOSE i \in 1..26 : UpperChars[i] = c]
    ELSE c

\* str.lower()
RECURSIVE lower(_)
lower(s) == IF s = <<>> THEN <<>> ELSE <<LowerChar(Head(s))>> \o lower(Tail(s))

RECURSIVE lstrip(_)
lstrip(s) ==
    IF s = <<>> THEN <<>>
    ELSE IF Head(s) \in Whitespace THEN lstrip(Tail(s)) ELSE s

RECURSIVE rstrip(_)
rstrip(s) ==
    IF s = <<>> THEN <<>>
    ELSE IF s[Len(s)] \in Whitespace THEN rstrip(SubSeq(s, 1, Len(s) - 1)) ELSE s

\* str.strip()
strip(s) == rstrip(lstrip(s))

AllDigits(s) == \A i \in 1..Len(s) : IsDigit(s[i])

\* int(text) of a digit string
RECURSIVE DigitsValue(_)
DigitsValue(s) ==
    IF s = <<>> THEN 0
    ELSE 10 * DigitsValue(SubSeq(s, 1, Len(s) - 1)) + DigitVal(s[Len(s)])

\* position of the first occurrence of a character of cs in s, 0 when none
FirstIndex(s, cs) ==
    IF \E i \in 1..Len(s) : s[i] \in cs
    THEN CHOOSE i \in 1..Len(s) : s[i] \in cs /\ \A j \in 1..(i - 1) : s[j] \notin cs
    ELSE 0

\* str.split(sep) for a one-character separator
RECURSIVE Split(_, _)
Split(s, sep) ==
    LET i == FirstIndex(s, {sep})
    IN  IF i = 0 THEN <<s>>
        ELSE <<SubSeq(s, 1, i - 1)>> \o Split(SubSeq(s, i + 1, Len(s)), sep)

\* ------------------------------------------------------------------------
\* Results of a call: a returned value or a raised exception
\* ------------------------------------------------------------------------
Return(v) == [ok |-> TRUE, value |-> v]

Raise(type, msg) == [ok |-> FALSE, exc |-> type, msg |-> msg]

\* ------------------------------------------------------------------------
\* Decimal(text): the exact decimal a numeric string denotes
\* (decimal.Decimal: [sign] digits [. digits] [E [sign] digits], [sign] Inf,
\*  [sign] Infinity, [sign] NaN, [sign] sNaN; letters in any case)
\* ------------------------------------------------------------------------
T_inf == <<"i", "n", "f">>
T_infinity == <<"i", "n", "f", "i", "n", "i", "t", "y">>
T_nan == <<"n", "a", "n">>
T_snan == <<"s", "n", "a", "n">>

Finite(sign, coef, exp) == [kind |-> "finite", sign |-> sign, coef |-> coef, exp |-> exp]

Special(kind, sign) == [kind |-> kind, sign |-> sign, coef |-> 0, exp |-> 0]

\* the exponent part after the E: [sign] digits, at least one digit
ExponentOk(e) ==
    LET d == IF e # <<>> /\ Head(e) \in {"+", "-"} THEN Tail(e) ELSE e
    IN  d # <<>> /\ AllDigits(d)

ExponentValue(e) ==
    IF Head(e) = "-" THEN 0 - DigitsValue(Tail(e))
    ELSE IF Head(e) = "+" THEN DigitsValue(Tail(e))
    ELSE DigitsValue(e)

\* digits [. digits] [E [sign] digits], from the mantissa split at the point
NumberOf(sign, int, frac, hasExp, expo) ==
    IF /\ AllDigits(int) /\ AllDigits(frac)
       /\ Len(int) + Len(frac) > 0
       /\ (hasExp => ExponentOk(expo))
    THEN Return(Finite(sign, DigitsValue(int \o frac),
                       (IF hasExp THEN ExponentValue(expo) ELSE 0) - Len(frac)))
    ELSE Raise("InvalidOperation", <<>>)

MantissaOf(sign, mant, dot, hasExp, expo) ==
    IF dot = 0 THEN NumberOf(sign, mant, <<>>, hasExp, expo)
    ELSE NumberOf(sign, SubSeq(mant, 1, dot - 1), SubSeq(mant, dot + 1, Len(mant)),
                  hasExp, expo)

NumericOf(sign, low, epos) ==
    IF epos = 0 THEN MantissaOf(sign, low, FirstIndex(low, {"."}), FALSE, <<>>)
    ELSE MantissaOf(sign, SubSeq(low, 1, epos - 1),
                    FirstIndex(SubSeq(low, 1, epos - 1), {"."}),
                    TRUE, SubSeq(low, epos + 1, Len(low)))

UnsignedOf(sign, low) ==
    IF low \in {T_inf, T_infinity} THEN Return(Special("inf", sign))
    ELSE IF low = T_nan THEN Return(Special("nan", sign))
    ELSE IF low = T_snan THEN Return(Special("snan", sign))
    ELSE NumericOf(sign, low, FirstIndex(low, {"e"}))

SignedOf(s) ==
    IF s # <<>> /\ Head(s) \in {"+", "-"}
    THEN UnsignedOf(IF Head(s) = "-" THEN 1 ELSE 0, lower(Tail(s)))
    ELSE UnsignedOf(0, lower(s))

\* Decimal(text) as a call result: the value, or InvalidOperation (ConversionSyntax)
ParseDecimal(text) == SignedOf(strip(text))

IsNaN(d) == d.kind \in {"nan", "snan"}

\* amount < 0: an ordering comparison with a NaN signals InvalidOperation
DecimalLtZero(d) ==
    IF IsNaN(d) THEN Raise("InvalidOperation", <<>>)
    ELSE Return(d.sign = 1 /\ (d.kind = "inf" \/ d.coef > 0))

\* amount == 0
DecimalEqZero(d) == d.kind = "finite" /\ d.coef = 0

\* amount > 0, for a value that is not a NaN
DecimalGtZero(d) == d.sign = 0 /\ (d.kind = "inf" \/ (d.kind = "finite" /\ d.coef > 0))

\* ------------------------------------------------------------------------
\* datetime.strptime(text, "%Y-%m-%d")
\* ------------------------------------------------------------------------
IsLeap(y) == (y % 4 = 0 /\ y % 100 # 0) \/ y % 400 = 0

DaysInMonth(y, m) ==
    IF m = 2 THEN (IF IsLeap(y) THEN 29 ELSE 28)
    ELSE IF m \in {4, 6, 9, 11} THEN 30 ELSE 31

\* %Y is \d\d\d\d
YearText(s) == Len(s) = 4 /\ AllDigits(s)

\* %m is 1[0-2]|0[1-9]|[1-9]
MonthText(s) ==
    /\ Len(s) \in {1, 2}
    /\ AllDigits(s)
    /\ DigitsValue(s) \in 1..12

\* %d is 3[0-1]|[1-2]\d|0[1-9]|[1-9]| [1-9]
DayText(s) ==
    \/ /\ Len(s) \in {1, 2}
       /\ AllDigits(s)
       /\ DigitsValue(s) \in 1..31
    \/ /\ Len(s) = 2
       /\ s[1] = " "
       /\ IsDigit(s[2])
       /\ s[2] # "0"

DayValue(s) == IF s[1] = " " THEN DigitVal(s[2]) ELSE DigitsValue(s)

DateOf(parts) ==
    IF /\ Len(parts) = 3
       /\ YearText(parts[1])
       /\ MonthText(parts[2])
       /\ DayText(parts[3])
       /\ DigitsValue(parts[1]) >= 1
       /\ DayValue(parts[3]) <= DaysInMonth(DigitsValue(parts[1]), DigitsValue(parts[2]))
    THEN Return([year  |-> DigitsValue(parts[1]),
                 month |-> DigitsValue(parts[2]),
                 day   |-> DayValue(parts[3])])
    ELSE Raise("ValueError", <<>>)

\* the parsed date, or ValueError
ParseDate(text) == DateOf(Split(text, "-"))

\* ------------------------------------------------------------------------
\* Field validators (importer/validator.py)
\* A row number is <<n>>, or <<>> for a call without one (row_num=None).
\* A raised ValidationError carries its message as a record: the row of the
\* prefix, the fixed text, and the values the f-string embeds.
\* ------------------------------------------------------------------------
REQUIRED_FIELDS == <<"date", "amount", "category", "type", "description">>

T_income == <<"i", "n", "c", "o", "m", "e">>
T_expense == <<"e", "x", "p", "e", "n", "s", "e">>
T_transfer == <<"t", "r", "a", "n", "s", "f", "e", "r">>

VALID_TRANSACTION_TYPES == {T_income, T_expense, T_transfer}

DATE_FORMAT == "%Y-%m-%d"

ValidationError(msg) == Raise("ValidationError", msg)

AttributeError == Raise("AttributeError", [text |-> "'NoneType' object has no attribute 'strip'"])

\* the fields the comprehension collects: key not in the record, or blank value
MissingFields(record) ==
    LET Missing(f) == f \notin DOMAIN record \/ strip(record[f]) = <<>>
    IN  SelectSeq(REQUIRED_FIELDS, Missing)

PresenceResult(missing_fields, row_num) ==
    IF missing_fields # <<>>
    THEN ValidationError([row |-> row_num, text |-> "Missing required fields",
                          fields |-> missing_fields])
    ELSE Return(NoneVal)

validate_field_presence(record, row_num) ==
    IF \E f \in DOMAIN record : record[f] = NoneVal
    THEN AttributeError
    ELSE PresenceResult(MissingFields(record), row_num)

DateResult(parsed, date_format, date_str, row_num) ==
    IF parsed.ok THEN parsed
    ELSE ValidationError([row |-> row_num, text |-> "Invalid date format",
                          raw |-> date_str, expected |-> date_format])

validate_date(date_format, date_str, row_num) ==
    DateResult(ParseDate(strip(date_str)), date_format, date_str, row_num)

InvalidAmount(amount_str, row_num) ==
    ValidationError([row |-> row_num, text |-> "Invalid amount format", raw |-> amount_str])

\* the try block without the test for zero
AmountChecks_noZeroTest(amount, negative, row_num, amount_str) ==
    IF ~negative.ok THEN InvalidAmount(amount_str, row_num)
    ELSE IF negative.value
    THEN ValidationError([row |-> row_num, text |-> "Amount cannot be negative",
                          amount |-> amount])
    ELSE Return(amount)

\* the body of the try block, on the parsed amount
AmountChecks(amount, negative, row_num, amount_str) ==
    IF ~negative.ok THEN InvalidAmount(amount_str, row_num)
    ELSE IF negative.value
    THEN ValidationError([row |-> row_num, text |-> "Amount cannot be negative",
                          amount |-> amount])
    ELSE IF DecimalEqZero(amount)
    THEN ValidationError([row |-> row_num, text |-> "Amount cannot be zero"])
    ELSE Return(amount)

AmountResult(parsed, amount_str, row_num) ==
    IF ~parsed.ok THEN InvalidAmount(amount_str, row_num)
    ELSE AmountChecks(parsed.value, DecimalLtZero(parsed.value), row_num, amount_str)

validate_amount(amount_str, row_num) ==
    AmountResult(ParseDecimal(amount_str), amount_str, row_num)

TypeResult(normalized, trans_type, row_num) ==
    IF normalized \notin VALID_TRANSACTION_TYPES
    THEN ValidationError([row |-> row_num, text |-> "Invalid transaction type",
                          raw |-> trans_type, allowed |-> VALID_TRANSACTION_TYPES])
    ELSE Return(normalized)

validate_transaction_type(trans_type, row_num) ==
    TypeResult(lower(strip(trans_type)), trans_type, row_num)

CategoryResult(normalized, row_num) ==
    IF normalized = <<>> \/ Len(normalized) < 2
    THEN ValidationError([row |-> row_num,
                          text |-> "Category must be at least 2 characters long"])
    ELSE Return(normalized)

\* validate_category returning the text it was given instead of the trimmed one
validate_category_untrimmed(category, row_num) ==
    IF Len(strip(category)) < 2
    THEN ValidationError([row |-> row_num,
                          text |-> "Category must be at least 2 characters long"])
    ELSE Return(category)

validate_category(category, row_num) == CategoryResult(strip(category), row_num)

DescriptionResult(normalized, row_num) ==
    IF normalized = <<>>
    THEN ValidationError([row |-> row_num, text |-> "Description cannot be empty"])
    ELSE Return(normalized)

validate_description_untrimmed(description, row_num) ==
    DescriptionResult(description, row_num)

validate_description(description, row_num) == DescriptionResult(strip(description), row_num)

\* ------------------------------------------------------------------------
\* Record validator: presence first, then the fields in the order of the
\* dict literal; the first raise leaves the function
\* ------------------------------------------------------------------------
\* the dict literal with category evaluated before amount
RecordResult_categoryFirst(date, amount, category, type, descr, record) ==
    IF ~date.ok THEN date
    ELSE IF ~category.ok THEN category
    ELSE IF ~amount.ok THEN amount
    ELSE IF ~type.ok THEN type
    ELSE IF ~descr.ok THEN descr
    ELSE Return([date            |-> date.value,
                 amount          |-> amount.value,
                 category        |-> category.value,
                 type            |-> type.value,
                 description     |-> descr.value,
                 original_record |-> record])

RecordResult(date, amount, category, type, descr, record) ==
    IF ~date.ok THEN date
    ELSE IF ~amount.ok THEN amount
    ELSE IF ~category.ok THEN category
    ELSE IF ~type.ok THEN type
    ELSE IF ~descr.ok THEN descr
    ELSE Return([date            |-> date.value,
                 amount          |-> amount.value,
                 category        |-> category.value,
                 type            |-> type.value,
                 description     |-> descr.value,
                 original_record |-> record])

PresentRecord(date_format, record, row_num) ==
    RecordResult(validate_date(date_format, record["date"], row_num),
                 validate_amount(record["amount"], row_num),
                 validate_category(record["category"], row_num),
                 validate_transaction_type(record["type"], row_num),
                 validate_description(record["description"], row_num),
                 record)

PresenceThen(presence, date_format, record, row_num) ==
    IF ~presence.ok THEN presence ELSE PresentRecord(date_format, record, row_num)

validate_record(date_format, record, row_num) ==
    PresenceThen(validate_field_presence(record, row_num), date_format, record, row_num)

\* ------------------------------------------------------------------------
\* State
\* ------------------------------------------------------------------------
VARIABLES
    transactions,       \* TransactionImporter.transactions
    validation_errors,  \* TransactionImporter.validation_errors
    pc,                 \* position of load: "idle", "rows", "returned", "raised"
    raised,             \* the exception that left the last load call, or NoException
    fieldnames,         \* reader.fieldnames of the file being read
    rows_read,          \* the data rows the current load call has taken from the reader
    line_num,           \* reader.line_num: the lines of the file the reader has consumed
    call,               \* a direct call of a function: its name and arguments
    ret,                \* the result of that call, or NotCalled
    heap,               \* the list objects in use: object id -> the list's elements
    source,             \* id of the caller's list given to TransactionFilter(...), 0 if none
    held,               \* id of the list TransactionFilter.transactions refers to
    returned,           \* id of the list last returned to the caller, 0 if none
    initial,            \* the elements of the caller's list when the filter was built
    log,                \* the chained predicate calls made on the filter, in order
    got,                \* the list last returned by a getter of the importer, or NoList
    table,              \* the rows of the transactions table of the database file
    sqlite_sequence,    \* sqlite_sequence of the table: the largest id ever assigned
    current_transactions,  \* database_menu: the list the menu holds in memory
    conns               \* the database connections opened and not closed

vars == <<transactions, validation_errors, pc, raised, fieldnames, rows_read, line_num, call, ret,
          heap, source, held, returned, initial, log,
          got, table, sqlite_sequence, current_transactions, conns>>

importerVars == <<transactions, validation_errors, pc, raised, fieldnames, rows_read, line_num>>

filterVars == <<heap, source, held, returned, initial, log>>

dbVars == <<table, sqlite_sequence, current_transactions, conns>>

NoException == [ok |-> TRUE]

NotCalled == [called |-> FALSE]

NoCall == [fn |-> "none"]

\* no getter of the importer has returned a list
NoList == [of |-> "none"]

\* the database file is new and the menu holds nothing
NoDatabase ==
    /\ table = {}
    /\ sqlite_sequence = 0
    /\ current_transactions = <<>>
    /\ conns = 0

\* a list the caller was returned, after the importer wrote ts and es to its
\* two lists: the same list object shows the writes, a copy does not
Seen(g, ts, es) ==
    IF g.of # "none" /\ g.same
    THEN [g EXCEPT !.items = IF g.of = "transactions" THEN ts ELSE es]
    ELSE g

\* no TransactionFilter has been built
NoFilter ==
    /\ heap = <<>>
    /\ source = 0
    /\ held = 0
    /\ returned = 0
    /\ initial = <<>>
    /\ log = <<>>

\* number of messages the aggregated failure embeds (validation_errors[:5])
ERRORS_SHOWN == 5

\* ------------------------------------------------------------------------
\* Inputs: cell texts and rows
\* ------------------------------------------------------------------------
AbsentKey == <<"<absent>">>

Fields == {REQUIRED_FIELDS[i] : i \in 1..Len(REQUIRED_FIELDS)}

\* the dict csv.DictReader yields: the keys of the header, None for a cell the
\* row is too short to hold
MakeRecord(cells) == [f \in {g \in DOMAIN cells : cells[g] # AbsentKey} |-> cells[f]]

Restrict(record, keys) == [f \in (DOMAIN record) \cap keys |-> record[f]]

RowA == [date |-> <<"2", "0", "2", "4", "-", "0", "1", "-", "0", "5">>, amount |-> <<"1", "0", ".", "5">>,
         category |-> <<"F", "o", "o", "d">>, type |-> <<"i", "n", "c", "o", "m", "e">>,
         description |-> <<"l", "u", "n", "c", "h">>]

RowB == [date |-> <<" ", "2", "0", "2", "4", "-", "2", "-", "2", "9">>, amount |-> <<" ", "1", "9", ".", "9", "9", " ">>,
         category |-> <<" ", "R", "e", "n", "t", " ">>, type |-> <<" ", "E", "x", "p", "e", "n", "s", "e">>,
         description |-> <<"f", "l", "a", "t", " ">>]

RowBad == [RowA EXCEPT !.amount = <<"-", "5">>]

RowShort == [RowA EXCEPT !.type = NoneVal, !.description = NoneVal]

\* the rows a file read by load is made of
FileRows == {RowA, RowB, RowBad, RowShort}

\* the headers of the files read by load: all columns, or no description column
Headers == {Fields, Fields \ {"description"}}

\* the cell texts of the rows given to validate_record directly
DateCells == {<<"2", "0", "2", "4", "-", "0", "1", "-", "0", "5">>, <<" ", "2", "0", "2", "4", "-", "2", "-", "2", "9", " ">>, <<"2", "0", "2", "3", "-", "0", "2", "-", "2", "9">>, <<" ">>,
              NoneVal, AbsentKey}

AmountCells == {<<"1", "0", ".", "5">>, <<" ", "1", "9", ".", "9", "9">>, <<"-", "5">>, <<"0", ".", "0">>, <<"a", "b", "c">>,
                NoneVal, AbsentKey}

CategoryCells == {<<" ", "F", "o", "o", "d", " ">>, <<"F", " ">>, <<" ", " ">>, NoneVal, AbsentKey}

TypeCells == {<<" ", "E", "x", "p", "e", "n", "s", "e">>, <<"i", "n", "c", "o", "m", "e">>, <<"g", "i", "f", "t">>, <<>>, NoneVal, AbsentKey}

DescriptionCells == {<<"l", "u", "n", "c", "h", " ">>, <<" ">>, NoneVal, AbsentKey}

RecordInputs ==
    {MakeRecord([date |-> d, amount |-> a, category |-> c, type |-> t, description |-> e]) :
        d \in DateCells, a \in AmountCells, c \in CategoryCells,
        t \in TypeCells, e \in DescriptionCells}

\* the amount texts given to validate_amount directly
AmountAlphabet == {"-", "0", "5", ".", " ", "a", "n", "e"}

RECURSIVE TextsUpTo(_)
TextsUpTo(n) ==
    IF n = 0 THEN {<<>>}
    ELSE TextsUpTo(n - 1) \cup
         {<<c>> \o s : c \in AmountAlphabet, s \in {t \in TextsUpTo(n - 1) : Len(t) = n - 1}}

AmountInputs ==
    TextsUpTo(MaxAmountLen) \cup
    {<<"N", "a", "N">>, <<"s", "N", "a", "N">>, <<"I", "n", "f", "i", "n", "i", "t", "y">>, <<"-", "i", "n", "f">>, <<"1", "9", ".", "9", "9">>, <<"+", "3">>, <<"1", "E", "+", "2">>, <<"-", "0", ".", "0", "0">>}

RowNumbers == {<<2>>, <<3>>}

ValidatorCalls ==
    {[fn |-> "validate_record", record |-> r, row_num |-> n] :
        r \in RecordInputs, n \in RowNumbers} \cup
    {[fn |-> "validate_amount", amount_str |-> a, row_num |-> n] :
        a \in AmountInputs, n \in {<<>>, <<7>>}}

\* ------------------------------------------------------------------------
\* TransactionImporter.load (importer/importer_controller.py), in the steps
\* the reader takes: the call up to the header, one data row at a time, a
\* decode failure of the next chunk of the file, and the end of the file
\* ------------------------------------------------------------------------
Init ==
    /\ transactions = <<>>
    /\ validation_errors = <<>>
    /\ pc = "idle"
    /\ raised = NoException
    /\ fieldnames = {}
    /\ rows_read = <<>>
    /\ line_num = 0
    /\ call = NoCall
    /\ ret = NotCalled
    /\ NoFilter
    /\ got = NoList
    /\ NoDatabase

Callable == pc \in {"idle", "returned", "raised"}

Min(a, b) == IF a < b THEN a ELSE b

\* the aggregated failure reporting a remaining count from five errors on
AggregatedFailure_countFromFive(errors) ==
    Raise("ValueError",
          [text  |-> "No valid transactions found. Errors:",
           shown |-> SubSeq(errors, 1, Min(ERRORS_SHOWN, Len(errors))),
           more  |-> IF Len(errors) >= ERRORS_SHOWN
                     THEN <<Len(errors) - ERRORS_SHOWN>> ELSE <<>>])

\* "No valid transactions found. Errors:" + the first messages + "... and k more"
AggregatedFailure(errors) ==
    Raise("ValueError",
          [text  |-> "No valid transactions found. Errors:",
           shown |-> SubSeq(errors, 1, Min(ERRORS_SHOWN, Len(errors))),
           more  |-> IF Len(errors) > ERRORS_SHOWN
                     THEN <<Len(errors) - ERRORS_SHOWN>> ELSE <<>>])

DecodeFailure ==
    Raise("ValueError", [text |-> "Cannot decode file with utf-8 encoding. Try a different encoding."])

\* load(path) of a path that does not exist: raises before anything is cleared
LoadMissingFile ==
    /\ Callable
    /\ pc' = "raised"
    /\ raised' = Raise("FileNotFoundError", [text |-> "File not found"])
    /\ rows_read' = <<>>
    /\ line_num' = 0
    /\ fieldnames' = {}
    /\ UNCHANGED <<transactions, validation_errors, call, ret, filterVars, dbVars>>
    /\ got' = Seen(got, transactions', validation_errors')

\* load(path) of a file with no header row: both lists cleared, then ValueError
LoadEmptyFile ==
    /\ Callable
    /\ transactions' = <<>>
    /\ validation_errors' = <<>>
    /\ pc' = "raised"
    /\ raised' = Raise("ValueError", [text |-> "CSV file is empty or has no header row"])
    /\ rows_read' = <<>>
    /\ line_num' = 0
    /\ fieldnames' = {}
    /\ UNCHANGED <<call, ret, filterVars, dbVars>>
    /\ got' = Seen(got, transactions', validation_errors')

\* load(path) of a file with a header: both lists cleared, the reader is at row 2
LoadOpen(header) ==
    /\ Callable
    /\ transactions' = <<>>
    /\ validation_errors' = <<>>
    /\ pc' = "rows"
    /\ raised' = NoException
    /\ rows_read' = <<>>
    /\ line_num' = 1
    /\ fieldnames' = header
    /\ UNCHANGED <<call, ret, filterVars, dbVars>>
    /\ got' = Seen(got, transactions', validation_errors')

\* load(path) of a file whose first chunk cannot be decoded
LoadUndecodable ==
    /\ Callable
    /\ transactions' = <<>>
    /\ validation_errors' = <<>>
    /\ pc' = "raised"
    /\ raised' = DecodeFailure
    /\ rows_read' = <<>>
    /\ line_num' = 0
    /\ fieldnames' = {}
    /\ UNCHANGED <<call, ret, filterVars, dbVars>>
    /\ got' = Seen(got, transactions', validation_errors')

\* the try/except around validate_record, on its result
StoreRow(validated) ==
    IF validated.ok
    THEN /\ transactions' = Append(transactions, validated.value)
         /\ UNCHANGED <<validation_errors, pc, raised>>
    ELSE IF validated.exc = "ValidationError"
    THEN /\ validation_errors' = Append(validation_errors, validated.msg)
         /\ UNCHANGED <<transactions, pc, raised>>
    ELSE /\ pc' = "raised"
         /\ raised' = validated
         /\ UNCHANGED <<transactions, validation_errors>>

\* one turn of the for loop over the reader, on the row the reader yields
ReadRow(row) ==
    /\ pc = "rows"
    /\ Len(rows_read) < MaxRows
    /\ rows_read' = Append(rows_read, Restrict(row, fieldnames))
    /\ line_num' = line_num + 1
    /\ StoreRow(validate_record(DATE_FORMAT, Restrict(row, fieldnames), <<Len(rows_read) + 2>>))
    /\ UNCHANGED <<fieldnames, call, ret, filterVars, dbVars>>
    /\ got' = Seen(got, transactions', validation_errors')

\* the reader hits bytes the encoding cannot decode: UnicodeDecodeError -> ValueError
DecodeError ==
    /\ pc = "rows"
    /\ pc' = "raised"
    /\ raised' = DecodeFailure
    /\ UNCHANGED <<transactions, validation_errors, fieldnames, rows_read, line_num, call, ret, filterVars, dbVars>>
    /\ got' = Seen(got, transactions', validation_errors')

\* the check after the with block raising whenever there are errors
EndOfFile_anyError ==
    /\ pc = "rows"
    /\ IF validation_errors # <<>>
       THEN /\ pc' = "raised"
            /\ raised' = AggregatedFailure(validation_errors)
       ELSE /\ pc' = "returned"
            /\ raised' = NoException
    /\ UNCHANGED <<transactions, validation_errors, fieldnames, rows_read, line_num, call, ret, filterVars, dbVars>>
    /\ got' = Seen(got, transactions', validation_errors')

\* the reader is exhausted: the check after the with block
EndOfFile ==
    /\ pc = "rows"
    /\ IF transactions = <<>> /\ validation_errors # <<>>
       THEN /\ pc' = "raised"
            /\ raised' = AggregatedFailure(validation_errors)
       ELSE /\ pc' = "returned"
            /\ raised' = NoException
    /\ UNCHANGED <<transactions, validation_errors, fieldnames, rows_read, line_num, call, ret, filterVars, dbVars>>
    /\ got' = Seen(got, transactions', validation_errors')

Next ==
    \/ LoadMissingFile
    \/ LoadEmptyFile
    \/ LoadUndecodable
    \/ \E header \in Headers : LoadOpen(header)
    \/ \E row \in FileRows : ReadRow(row)
    \/ DecodeError
    \/ EndOfFile

Spec == Init /\ [][Next]_vars

\* ------------------------------------------------------------------------
\* Direct calls of the validators on enumerated arguments
\* ------------------------------------------------------------------------
InitCalls ==
    /\ transactions = <<>>
    /\ validation_errors = <<>>
    /\ pc = "idle"
    /\ raised = NoException
    /\ fieldnames = {}
    /\ rows_read = <<>>
    /\ line_num = 0
    /\ call \in ValidatorCalls
    /\ ret = NotCalled
    /\ NoFilter
    /\ got = NoList
    /\ NoDatabase

CallValidateRecord ==
    /\ call.fn = "validate_record"
    /\ ret = NotCalled
    /\ ret' = validate_record(DATE_FORMAT, call.record, call.row_num)
    /\ UNCHANGED <<importerVars, call, filterVars, got, dbVars>>

CallValidateAmount ==
    /\ call.fn = "validate_amount"
    /\ ret = NotCalled
    /\ ret' = validate_amount(call.amount_str, call.row_num)
    /\ UNCHANGED <<importerVars, call, filterVars, got, dbVars>>

NextCalls == CallValidateRecord \/ CallValidateAmount

SpecCalls == InitCalls /\ [][NextCalls]_vars

\* ------------------------------------------------------------------------
\* TransactionFilter (NPJP_Final/importer.py): the values it compares
\* ------------------------------------------------------------------------

\* an optional argument: <<>> for None, <<v>> for the value v
None == <<>>

Some(v) == <<v>>

RECURSIVE Pow10(_)
Pow10(n) == IF n = 0 THEN 1 ELSE 10 * Pow10(n - 1)

\* a finite Decimal in units of 10^e, for e at most its exponent
Scaled(d, e) == (IF d.sign = 1 THEN -1 ELSE 1) * d.coef * Pow10(d.exp - e)

\* Decimal a < b, for values that are not NaN
DecimalLt(a, b) ==
    CASE a.kind = "inf" -> a.sign = 1 /\ ~(b.kind = "inf" /\ b.sign = 1)
      [] b.kind = "inf" -> b.sign = 0
      [] OTHER -> Scaled(a, Min(a.exp, b.exp)) < Scaled(b, Min(a.exp, b.exp))

\* Decimal a > b
DecimalGt(a, b) == DecimalLt(b, a)

\* Decimal a >= b
DecimalGe(a, b) == ~DecimalLt(a, b)

\* Decimal a <= b
DecimalLe(a, b) == ~DecimalLt(b, a)

\* bool(x) of an optional Decimal: None and zero are false
DecimalTruthy(opt) == opt # None /\ ~DecimalEqZero(opt[1])

\* bool(x) of an optional str or list: None and the empty one are false
Truthy(opt) == opt # None /\ opt[1] # <<>>

\* datetime a <= b
DateLe(a, b) ==
    \/ a.year < b.year
    \/ a.year = b.year /\ a.month < b.month
    \/ a.year = b.year /\ a.month = b.month /\ a.day <= b.day

\* str: keyword in text
Contains(text, keyword) ==
    \E i \in 0..(Len(text) - Len(keyword)) : SubSeq(text, i + 1, i + Len(keyword)) = keyword

\* {c.lower() for c in categories}
LowerSet(categories) == {lower(categories[i]) : i \in 1..Len(categories)}

\* ------------------------------------------------------------------------
\* TransactionFilter: the list each method computes from the list it reads
\* ------------------------------------------------------------------------

\* a predicate handed to by_custom by the caller, called on one record
CallPredicate(predicate, t) ==
    CASE predicate = "expenses_over_100" ->
             t.type = T_expense /\ DecimalGt(t.amount, Finite(0, 100, 0))
      [] predicate = "in_february" -> t.date.month = 2

\* by_date_range with the end date itself left out
by_date_range_beforeEnd(ts, start_date, end_date) ==
    LET Keep(t) == DateLe(start_date, t.date) /\ ~DateLe(end_date, t.date)
    IN  SelectSeq(ts, Keep)

by_date_range(ts, start_date, end_date) ==
    LET Keep(t) == DateLe(start_date, t.date) /\ DateLe(t.date, end_date)
    IN  SelectSeq(ts, Keep)

\* by_amount_range leaving its loop at the first record under min_amount
by_amount_range_break(ts, min_amount, max_amount) ==
    LET Under(t) == DecimalTruthy(min_amount) /\ DecimalLt(t.amount, min_amount[1])
        Keep(t) == ~(DecimalTruthy(max_amount) /\ DecimalGt(t.amount, max_amount[1]))
        stop == CHOOSE i \in 1..(Len(ts) + 1) :
                    /\ i = Len(ts) + 1 \/ Under(ts[i])
                    /\ \A j \in 1..(i - 1) : ~Under(ts[j])
    IN  SelectSeq(SubSeq(ts, 1, stop - 1), Keep)

\* the loop skips a record when a bound is truthy and the amount is beyond it
by_amount_range(ts, min_amount, max_amount) ==
    LET Keep(t) ==
            /\ ~(DecimalTruthy(min_amount) /\ DecimalLt(t.amount, min_amount[1]))
            /\ ~(DecimalTruthy(max_amount) /\ DecimalGt(t.amount, max_amount[1]))
    IN  SelectSeq(ts, Keep)

\* by_category reading self.transactions[1:], the first record left out
by_category_skipFirst(ts, category) ==
    LET Keep(t) == lower(t.category) = lower(category)
    IN  SelectSeq(IF ts = <<>> THEN ts ELSE Tail(ts), Keep)

by_category(ts, category) ==
    LET Keep(t) == lower(t.category) = lower(category)
    IN  SelectSeq(ts, Keep)

by_categories(ts, categories) ==
    LET Keep(t) == lower(t.category) \in LowerSet(categories)
    IN  SelectSeq(ts, Keep)

\* the argument is trimmed and lowercased, the record's type is taken as it is
by_type(ts, transaction_type) ==
    LET Keep(t) == t.type = lower(strip(transaction_type))
    IN  SelectSeq(ts, Keep)

by_description(ts, keyword) ==
    LET Keep(t) == Contains(lower(t.description), lower(keyword))
    IN  SelectSeq(ts, Keep)

by_custom(ts, predicate) ==
    LET Keep(t) == CallPredicate(predicate, t)
    IN  SelectSeq(ts, Keep)

\* apply_filters, one criterion after the other on the list filtered so far
ApplyDateRange(filtered, start_date, end_date) ==
    IF start_date # None /\ end_date # None
    THEN LET Keep(t) == DateLe(start_date[1], t.date) /\ DateLe(t.date, end_date[1])
         IN  SelectSeq(filtered, Keep)
    ELSE filtered

ApplyMinAmount(filtered, min_amount) ==
    IF min_amount # None
    THEN LET Keep(t) == DecimalGe(t.amount, min_amount[1]) IN SelectSeq(filtered, Keep)
    ELSE filtered

ApplyMaxAmount(filtered, max_amount) ==
    IF max_amount # None
    THEN LET Keep(t) == DecimalLe(t.amount, max_amount[1]) IN SelectSeq(filtered, Keep)
    ELSE filtered

ApplyCategory(filtered, category) ==
    IF Truthy(category)
    THEN LET Keep(t) == lower(t.category) = lower(category[1]) IN SelectSeq(filtered, Keep)
    ELSE filtered

ApplyCategories(filtered, categories) ==
    IF Truthy(categories)
    THEN LET Keep(t) == lower(t.category) \in LowerSet(categories[1])
         IN  SelectSeq(filtered, Keep)
    ELSE filtered

ApplyType(filtered, transaction_type) ==
    IF Truthy(transaction_type)
    THEN LET Keep(t) == t.type = lower(strip(transaction_type[1]))
         IN  SelectSeq(filtered, Keep)
    ELSE filtered

ApplyKeyword(filtered, description_keyword) ==
    IF Truthy(description_keyword)
    THEN LET Keep(t) == Contains(lower(t.description), lower(description_keyword[1]))
         IN  SelectSeq(filtered, Keep)
    ELSE filtered

\* c holds the eight keyword arguments, each None or Some(value)
apply_filters(ts, c) ==
    ApplyKeyword(
        ApplyType(
            ApplyCategories(
                ApplyCategory(
                    ApplyMaxAmount(
                        ApplyMinAmount(
                            ApplyDateRange(ts, c.start_date, c.end_date),
                            c.min_amount),
                        c.max_amount),
                    c.category),
                c.categories),
            c.transaction_type),
        c.description_keyword)

\* ------------------------------------------------------------------------
\* TransactionFilter: the records it is given and the arguments of its calls
\* ------------------------------------------------------------------------
MaxRecords == 2

MaxChain == 2

Date(y, m, d) == [year |-> y, month |-> m, day |-> d]

\* the fields of a record the filter reads
FilterRecord(date, amount, category, type, description) ==
    [date |-> date, amount |-> amount, category |-> category, type |-> type,
     description |-> description]

T_salary == FilterRecord(Date(2024, 1, 5), Finite(0, 1000, 0), <<"S", "a", "l", "a", "r", "y">>, T_income, <<"J", "a", "n", "u", "a", "r", "y", " ", "p", "a", "y">>)

T_market == FilterRecord(Date(2024, 1, 10), Finite(0, 200, 0), <<"G", "r", "o", "c", "e", "r", "i", "e", "s">>, T_expense, <<"M", "a", "r", "k", "e", "t">>)

T_lunch == FilterRecord(Date(2024, 2, 1), Finite(0, 50, 0), <<"D", "i", "n", "i", "n", "g">>, T_expense, <<"L", "u", "n", "c", "h">>)

\* a stored record whose type and category were retyped in the edit menu,
\* which stores the text as typed, and fetched again
T_edited == FilterRecord(Date(2024, 1, 31), Finite(0, 1999, -2), <<"g", "r", "o", "c", "e", "r", "i", "e", "s">>, <<"E", "x", "p", "e", "n", "s", "e">>, <<"m", "a", "r", "k", "e", "t", " ", "s", "t", "a", "l", "l">>)

RecordPool == {T_salary, T_market, T_lunch, T_edited}

RECURSIVE ListsUpTo(_)
ListsUpTo(n) ==
    IF n = 0 THEN {<<>>}
    ELSE ListsUpTo(n - 1) \cup
         {Append(ts, t) : ts \in {l \in ListsUpTo(n - 1) : Len(l) = n - 1}, t \in RecordPool}

\* the lists a filter is built over
RecordLists == ListsUpTo(MaxRecords) \cup {<<T_salary, T_market, T_lunch>>}

StartDates == {Date(2024, 1, 5)}

EndDates == {Date(2024, 1, 31)}

MinAmounts == {Finite(0, 0, 0), Finite(0, 100, 0)}

MaxAmounts == {Finite(0, 0, 0), Finite(0, 200, 0)}

CategoryArgs == {<<>>, <<"G", "R", "O", "C", "E", "R", "I", "E", "S">>}

CategoriesArgs == {<<>>, <<<<"g", "r", "o", "c", "e", "r", "i", "e", "s">>, <<"D", "I", "N", "I", "N", "G">>>>}

TypeArgs == {<<>>, <<" ", "E", "x", "p", "e", "n", "s", "e", " ">>, <<"i", "n", "c", "o", "m", "e">>}

KeywordArgs == {<<>>, <<"M", "A", "R", "K", "E", "T">>}

PredicateArgs == {"expenses_over_100", "in_february"}

Optional(values) == {None} \cup {Some(v) : v \in values}

DateRangeCalls ==
    {[fn |-> "by_date_range", start_date |-> s, end_date |-> e] :
        s \in StartDates, e \in EndDates}

AmountRangeCalls ==
    {[fn |-> "by_amount_range", min_amount |-> lo, max_amount |-> hi] :
        lo \in Optional(MinAmounts), hi \in Optional(MaxAmounts)}

CategoryCalls == {[fn |-> "by_category", category |-> c] : c \in CategoryArgs}

CategoriesCalls == {[fn |-> "by_categories", categories |-> cs] : cs \in CategoriesArgs}

TypeCalls == {[fn |-> "by_type", transaction_type |-> t] : t \in TypeArgs}

DescriptionCalls == {[fn |-> "by_description", keyword |-> k] : k \in KeywordArgs}

CustomCalls == {[fn |-> "by_custom", predicate |-> p] : p \in PredicateArgs}

ChainCalls ==
    DateRangeCalls \cup AmountRangeCalls \cup CategoryCalls \cup CategoriesCalls \cup
    TypeCalls \cup DescriptionCalls \cup CustomCalls

\* one call of each predicate, for the runs that mix all the methods
RoutineCalls ==
    {[fn |-> "by_date_range", start_date |-> Date(2024, 1, 5), end_date |-> Date(2024, 1, 31)],
     [fn |-> "by_amount_range", min_amount |-> Some(Finite(0, 100, 0)), max_amount |-> None],
     [fn |-> "by_category", category |-> <<"G", "R", "O", "C", "E", "R", "I", "E", "S">>],
     [fn |-> "by_categories", categories |-> <<<<"g", "r", "o", "c", "e", "r", "i", "e", "s">>, <<"D", "I", "N", "I", "N", "G">>>>],
     [fn |-> "by_type", transaction_type |-> <<" ", "E", "x", "p", "e", "n", "s", "e", " ">>],
     [fn |-> "by_description", keyword |-> <<"M", "A", "R", "K", "E", "T">>],
     [fn |-> "by_custom", predicate |-> "in_february"]}

\* the keyword arguments of apply_filters, all of them at their default
NoCriteria ==
    [start_date |-> None, end_date |-> None, min_amount |-> None, max_amount |-> None,
     category |-> None, categories |-> None, transaction_type |-> None,
     description_keyword |-> None]

Criteria ==
    [start_date : Optional(StartDates), end_date : Optional(EndDates),
     min_amount : Optional(MinAmounts), max_amount : Optional(MaxAmounts),
     category : Optional(CategoryArgs), categories : Optional(CategoriesArgs),
     transaction_type : Optional(TypeArgs \ {<<"i", "n", "c", "o", "m", "e">>}),
     description_keyword : Optional(KeywordArgs \ {<<>>})]

\* criteria with one argument given, or the two date arguments
SingleCriteria ==
    {[NoCriteria EXCEPT !.start_date = Some(Date(2024, 1, 5)), !.end_date = Some(Date(2024, 1, 31))],
     [NoCriteria EXCEPT !.min_amount = Some(Finite(0, 100, 0))],
     [NoCriteria EXCEPT !.category = Some(<<"G", "R", "O", "C", "E", "R", "I", "E", "S">>)],
     [NoCriteria EXCEPT !.transaction_type = Some(<<" ", "E", "x", "p", "e", "n", "s", "e", " ">>)]}

ApplyCalls == {[fn |-> "apply_filters", criteria |-> c] : c \in Criteria}

\* ------------------------------------------------------------------------
\* TransactionFilter: its methods as steps on the list objects.  A list is
\* an object: two references to one list see each other's changes, a copy
\* is a new object.  Lists nothing refers to any more are dropped.
\* ------------------------------------------------------------------------
ImporterIdle ==
    /\ transactions = <<>>
    /\ validation_errors = <<>>
    /\ pc = "idle"
    /\ raised = NoException
    /\ fieldnames = {}
    /\ rows_read = <<>>
    /\ line_num = 0
    /\ got = NoList
    /\ NoDatabase

\* a chained method returns the filter itself
ReturnSelf == [ok |-> TRUE, self |-> TRUE]

\* the id of a new list object, beside the live ones
NewId(live) == CHOOSE i \in 1..(Cardinality(live) + 1) : i \notin live

\* the heap with a new list under id and the live lists kept
Store(live, id, contents) ==
    [i \in live \cup {id} |-> IF i = id THEN contents ELSE heap[i]]

\* TransactionFilter(ts): self.transactions is the caller's list itself
Construct(ts) ==
    /\ heap = [i \in {1} |-> ts]
    /\ source = 1
    /\ held = 1
    /\ returned = 0
    /\ initial = ts

\* self.transactions = <a new list>; the list held so far is not written to
Rebind(contents) ==
    /\ held' = NewId({source, returned} \ {0})
    /\ heap' = Store({source, returned} \ {0}, NewId({source, returned} \ {0}), contents)
    /\ UNCHANGED <<source, returned, initial>>

\* return <a new list>; the caller lets go of the list returned before
ReturnList(contents) ==
    /\ returned' = NewId({source, held})
    /\ heap' = Store({source, held}, NewId({source, held}), contents)
    /\ ret' = Return(contents)
    /\ UNCHANGED <<source, held, initial>>

ByDateRange(start_date, end_date) ==
    /\ held # 0
    /\ Rebind(by_date_range(heap[held], start_date, end_date))
    /\ call' = [fn |-> "by_date_range", start_date |-> start_date, end_date |-> end_date]
    /\ ret' = ReturnSelf
    /\ UNCHANGED <<importerVars, got, dbVars>>

\* by_amount_range writing the kept records into the list it holds
ByAmountRange_inPlace(min_amount, max_amount) ==
    /\ held # 0
    /\ heap' = [heap EXCEPT ![held] = by_amount_range(@, min_amount, max_amount)]
    /\ call' = [fn |-> "by_amount_range", min_amount |-> min_amount, max_amount |-> max_amount]
    /\ ret' = ReturnSelf
    /\ UNCHANGED <<source, held, returned, initial, importerVars, got, dbVars>>

ByAmountRange(min_amount, max_amount) ==
    /\ held # 0
    /\ Rebind(by_amount_range(heap[held], min_amount, max_amount))
    /\ call' = [fn |-> "by_amount_range", min_amount |-> min_amount, max_amount |-> max_amount]
    /\ ret' = ReturnSelf
    /\ UNCHANGED <<importerVars, got, dbVars>>

ByCategory(category) ==
    /\ held # 0
    /\ Rebind(by_category(heap[held], category))
    /\ call' = [fn |-> "by_category", category |-> category]
    /\ ret' = ReturnSelf
    /\ UNCHANGED <<importerVars, got, dbVars>>

ByCategories(categories) ==
    /\ held # 0
    /\ Rebind(by_categories(heap[held], categories))
    /\ call' = [fn |-> "by_categories", categories |-> categories]
    /\ ret' = ReturnSelf
    /\ UNCHANGED <<importerVars, got, dbVars>>

ByType(transaction_type) ==
    /\ held # 0
    /\ Rebind(by_type(heap[held], transaction_type))
    /\ call' = [fn |-> "by_type", transaction_type |-> transaction_type]
    /\ ret' = ReturnSelf
    /\ UNCHANGED <<importerVars, got, dbVars>>

ByDescription(keyword) ==
    /\ held # 0
    /\ Rebind(by_description(heap[held], keyword))
    /\ call' = [fn |-> "by_description", keyword |-> keyword]
    /\ ret' = ReturnSelf
    /\ UNCHANGED <<importerVars, got, dbVars>>

ByCustom(predicate) ==
    /\ held # 0
    /\ Rebind(by_custom(heap[held], predicate))
    /\ call' = [fn |-> "by_custom", predicate |-> predicate]
    /\ ret' = ReturnSelf
    /\ UNCHANGED <<importerVars, got, dbVars>>

\* apply_filters narrowing the held list as the chained predicates do
ApplyFilters_narrowing(criteria) ==
    /\ held # 0
    /\ held' = NewId({source})
    /\ returned' = NewId({source})
    /\ heap' = Store({source}, NewId({source}), apply_filters(heap[held], criteria))
    /\ ret' = Return(apply_filters(heap[held], criteria))
    /\ call' = [fn |-> "apply_filters", criteria |-> criteria]
    /\ UNCHANGED <<source, initial, importerVars, got, dbVars>>

\* filtered = self.transactions.copy(), narrowed and returned
ApplyFilters(criteria) ==
    /\ held # 0
    /\ ReturnList(apply_filters(heap[held], criteria))
    /\ call' = [fn |-> "apply_filters", criteria |-> criteria]
    /\ UNCHANGED <<importerVars, got, dbVars>>

\* get_results returning the held list itself
GetResults_noCopy ==
    /\ held # 0
    /\ returned' = held
    /\ heap' = [i \in {source, held} |-> heap[i]]
    /\ ret' = Return(heap[held])
    /\ call' = [fn |-> "get_results"]
    /\ UNCHANGED <<source, held, initial, importerVars, got, dbVars>>

GetResults ==
    /\ held # 0
    /\ ReturnList(heap[held])
    /\ call' = [fn |-> "get_results"]
    /\ UNCHANGED <<importerVars, got, dbVars>>

\* reset(transactions), called with the list the filter was built over
Reset ==
    /\ held # 0
    /\ Rebind(heap[source])
    /\ call' = [fn |-> "reset"]
    /\ ret' = ReturnSelf
    /\ UNCHANGED <<importerVars, got, dbVars>>

\* the caller adds a record to the list it was returned
AppendToReturned(t) ==
    /\ returned # 0
    /\ Len(heap[returned]) < MaxRecords
    /\ heap' = [heap EXCEPT ![returned] = Append(@, t)]
    /\ UNCHANGED <<source, held, returned, initial, call, ret, importerVars, got, dbVars>>

\* the caller removes the last record of the list it was returned
PopFromReturned ==
    /\ returned # 0
    /\ heap[returned] # <<>>
    /\ heap' = [heap EXCEPT ![returned] = SubSeq(@, 1, Len(@) - 1)]
    /\ UNCHANGED <<source, held, returned, initial, call, ret, importerVars, got, dbVars>>

\* ------------------------------------------------------------------------
\* A filter built over a list, and one call made on it
\* ------------------------------------------------------------------------
InitFilterCall ==
    /\ ImporterIdle
    /\ \E ts \in RecordLists : Construct(ts)
    /\ log = <<>>
    /\ call \in ChainCalls \cup ApplyCalls
    /\ ret = NotCalled

Pending(fn) == ret = NotCalled /\ call.fn = fn

NextFilterCall ==
    \/ Pending("by_date_range") /\ ByDateRange(call.start_date, call.end_date) /\ UNCHANGED log
    \/ Pending("by_amount_range") /\ ByAmountRange(call.min_amount, call.max_amount) /\ UNCHANGED log
    \/ Pending("by_category") /\ ByCategory(call.category) /\ UNCHANGED log
    \/ Pending("by_categories") /\ ByCategories(call.categories) /\ UNCHANGED log
    \/ Pending("by_type") /\ ByType(call.transaction_type) /\ UNCHANGED log
    \/ Pending("by_description") /\ ByDescription(call.keyword) /\ UNCHANGED log
    \/ Pending("by_custom") /\ ByCustom(call.predicate) /\ UNCHANGED log
    \/ Pending("apply_filters") /\ ApplyFilters(call.criteria) /\ UNCHANGED log

SpecFilterCall == InitFilterCall /\ [][NextFilterCall]_vars

\* ------------------------------------------------------------------------
\* A filter built over a list, and a chain of predicate calls made on it
\* ------------------------------------------------------------------------
InitFilter ==
    /\ ImporterIdle
    /\ \E ts \in RecordLists : Construct(ts)
    /\ log = <<>>
    /\ call = NoCall
    /\ ret = NotCalled

\* the chain goes on by the call c
Chained(c) == Len(log) < MaxChain /\ log' = Append(log, c)

NextChain ==
    \/ \E c \in DateRangeCalls : Chained(c) /\ ByDateRange(c.start_date, c.end_date)
    \/ \E c \in AmountRangeCalls : Chained(c) /\ ByAmountRange(c.min_amount, c.max_amount)
    \/ \E c \in CategoryCalls : Chained(c) /\ ByCategory(c.category)
    \/ \E c \in CategoriesCalls : Chained(c) /\ ByCategories(c.categories)
    \/ \E c \in TypeCalls : Chained(c) /\ ByType(c.transaction_type)
    \/ \E c \in DescriptionCalls : Chained(c) /\ ByDescription(c.keyword)
    \/ \E c \in CustomCalls : Chained(c) /\ ByCustom(c.predicate)

SpecChain == InitFilter /\ [][NextChain]_vars

\* ------------------------------------------------------------------------
\* A filter built over a list and used in any way: chained predicates,
\* apply_filters, get_results and reset, with the caller changing the lists
\* it was returned
\* ------------------------------------------------------------------------
NextFilter ==
    \/ \E c \in DateRangeCalls \cap RoutineCalls : ByDateRange(c.start_date, c.end_date) /\ UNCHANGED log
    \/ \E c \in AmountRangeCalls \cap RoutineCalls : ByAmountRange(c.min_amount, c.max_amount) /\ UNCHANGED log
    \/ \E c \in CategoryCalls \cap RoutineCalls : ByCategory(c.category) /\ UNCHANGED log
    \/ \E c \in CategoriesCalls \cap RoutineCalls : ByCategories(c.categories) /\ UNCHANGED log
    \/ \E c \in TypeCalls \cap RoutineCalls : ByType(c.transaction_type) /\ UNCHANGED log
    \/ \E c \in DescriptionCalls \cap RoutineCalls : ByDescription(c.keyword) /\ UNCHANGED log
    \/ \E c \in CustomCalls \cap RoutineCalls : ByCustom(c.predicate) /\ UNCHANGED log
    \/ \E c \in SingleCriteria : ApplyFilters(c) /\ UNCHANGED log
    \/ GetResults /\ UNCHANGED log
    \/ Reset /\ UNCHANGED log
    \/ AppendToReturned(T_salary) /\ UNCHANGED log
    \/ PopFromReturned /\ UNCHANGED log

SpecFilter == InitFilter /\ [][NextFilter]_vars

\* ------------------------------------------------------------------------
\* The getters of the importer and get_statistics
\* (importer/importer_controller.py, NPJP_Final/importer.py)
\* ------------------------------------------------------------------------
\* the lines of a file read for the statistics, the header included
MaxLines == 3

\* the elements a caller holds at most in a list it was returned
MaxKept == 2

\* Decimal a + b of two values that are not NaN, exact at these sizes
DecimalAdd(a, b) ==
    CASE a.kind = "inf" /\ b.kind = "inf" ->
             IF a.sign = b.sign THEN Return(a) ELSE Raise("InvalidOperation", <<>>)
      [] a.kind = "inf" -> Return(a)
      [] b.kind = "inf" -> Return(b)
      [] OTHER ->
             Return(Finite(IF Scaled(a, Min(a.exp, b.exp)) + Scaled(b, Min(a.exp, b.exp)) < 0
                           THEN 1 ELSE 0,
                           IF Scaled(a, Min(a.exp, b.exp)) + Scaled(b, Min(a.exp, b.exp)) < 0
                           THEN 0 - (Scaled(a, Min(a.exp, b.exp)) + Scaled(b, Min(a.exp, b.exp)))
                           ELSE Scaled(a, Min(a.exp, b.exp)) + Scaled(b, Min(a.exp, b.exp)),
                           Min(a.exp, b.exp)))

\* Decimal a - b: a + (-b)
DecimalSub(a, b) == DecimalAdd(a, [b EXCEPT !.sign = 1 - b.sign])

\* sum(t['amount'] for t in ts if t['type'] == type): the additions from the
\* left, starting at the int 0, which is written here as the Decimal 0
RECURSIVE SumAmounts(_, _, _)
SumAmounts(ts, type, acc) ==
    IF ts = <<>> \/ ~acc.ok THEN acc
    ELSE IF Head(ts).type = type
    THEN SumAmounts(Tail(ts), type, DecimalAdd(acc.value, Head(ts).amount))
    ELSE SumAmounts(Tail(ts), type, acc)

\* min(dates), max(dates)
RECURSIVE Earliest(_)
Earliest(ts) ==
    IF Len(ts) = 1 THEN ts[1].date
    ELSE IF DateLe(ts[1].date, Earliest(Tail(ts))) THEN ts[1].date ELSE Earliest(Tail(ts))

RECURSIVE Latest(_)
Latest(ts) ==
    IF Len(ts) = 1 THEN ts[1].date
    ELSE IF DateLe(Latest(Tail(ts)), ts[1].date) THEN ts[1].date ELSE Latest(Tail(ts))

\* the returned dict, once income, expense and their difference are computed
Statistics_countingTransfers(ts, errors, income, expense, net) ==
    IF ~income.ok THEN income
    ELSE IF ~expense.ok THEN expense
    ELSE IF ~net.ok THEN net
    ELSE Return([total_transactions      |-> Len(ts),
                 total_income            |-> SumAmounts(ts, T_transfer, income).value,
                 total_expense           |-> expense.value,
                 net_balance             |-> net.value,
                 date_range              |-> <<Earliest(ts), Latest(ts)>>,
                 validation_errors_count |-> Len(errors)])

Statistics(ts, errors, income, expense, net) ==
    IF ~income.ok THEN income
    ELSE IF ~expense.ok THEN expense
    ELSE IF ~net.ok THEN net
    ELSE Return([total_transactions      |-> Len(ts),
                 total_income            |-> income.value,
                 total_expense           |-> expense.value,
                 net_balance             |-> net.value,
                 date_range              |-> <<Earliest(ts), Latest(ts)>>,
                 validation_errors_count |-> Len(errors)])

NetBalance(income, expense) ==
    IF income.ok /\ expense.ok THEN DecimalSub(income.value, expense.value) ELSE income

get_statistics(ts, errors) ==
    IF ts = <<>>
    THEN Return([total_transactions      |-> 0,
                 total_income            |-> Finite(0, 0, 0),
                 total_expense           |-> Finite(0, 0, 0),
                 net_balance             |-> Finite(0, 0, 0),
                 date_range              |-> None,
                 validation_errors_count |-> Len(errors)])
    ELSE Statistics(ts, errors,
                    SumAmounts(ts, T_income, Return(Finite(0, 0, 0))),
                    SumAmounts(ts, T_expense, Return(Finite(0, 0, 0))),
                    NetBalance(SumAmounts(ts, T_income, Return(Finite(0, 0, 0))),
                               SumAmounts(ts, T_expense, Return(Finite(0, 0, 0)))))

\* get_statistics(), between two calls of load
GetStatistics ==
    /\ Callable
    /\ call' = [fn |-> "get_statistics", transactions |-> transactions,
                validation_errors |-> validation_errors]
    /\ ret' = get_statistics(transactions, validation_errors)
    /\ UNCHANGED <<importerVars, got, filterVars, dbVars>>

\* the reader meets a line with nothing on it: csv.DictReader goes on to the
\* next line without yielding a record, so enumerate does not count it
SkipBlankLine ==
    /\ pc = "rows"
    /\ line_num' = line_num + 1
    /\ UNCHANGED <<transactions, validation_errors, pc, raised, fieldnames, rows_read,
                   call, ret, got, filterVars, dbVars>>

\* get_transactions returning the importer's list itself
GetTransactions_noCopy ==
    /\ Callable
    /\ got' = [of |-> "transactions", items |-> transactions, same |-> TRUE]
    /\ call' = [fn |-> "get_transactions"]
    /\ ret' = Return(transactions)
    /\ UNCHANGED <<importerVars, filterVars, dbVars>>

\* return self.transactions.copy()
GetTransactions ==
    /\ Callable
    /\ got' = [of |-> "transactions", items |-> transactions, same |-> FALSE]
    /\ call' = [fn |-> "get_transactions"]
    /\ ret' = Return(transactions)
    /\ UNCHANGED <<importerVars, filterVars, dbVars>>

\* return self.validation_errors.copy()
GetValidationErrors ==
    /\ Callable
    /\ got' = [of |-> "validation_errors", items |-> validation_errors, same |-> FALSE]
    /\ call' = [fn |-> "get_validation_errors"]
    /\ ret' = Return(validation_errors)
    /\ UNCHANGED <<importerVars, filterVars, dbVars>>

\* the caller writes items to the list it was returned; the importer's list
\* shows the write when it is the same list object
CallerWrites(items) ==
    /\ got' = [got EXCEPT !.items = items]
    /\ transactions' = IF got.same /\ got.of = "transactions" THEN items ELSE transactions
    /\ validation_errors' =
           IF got.same /\ got.of = "validation_errors" THEN items ELSE validation_errors
    /\ UNCHANGED <<pc, raised, fieldnames, rows_read, line_num, call, ret, filterVars, dbVars>>

\* an element of the caller's own
CallersOwn == [added |-> "by the caller"]

\* the caller adds an element to the list it was returned
AppendToGot(x) ==
    /\ Callable
    /\ got.of # "none"
    /\ Len(got.items) < MaxKept
    /\ CallerWrites(Append(got.items, x))

\* the caller removes the last element of the list it was returned
PopFromGot ==
    /\ Callable
    /\ got.of # "none"
    /\ got.items # <<>>
    /\ CallerWrites(SubSeq(got.items, 1, Len(got.items) - 1))

\* the rows of the files read for the statistics
RowTransfer == [RowA EXCEPT !.date = <<"2", "0", "2", "3", "-", "1", "2", "-", "3", "1">>, !.amount = <<"5">>, !.type = <<"t", "r", "a", "n", "s", "f", "e", "r">>]

RowInfIncome == [RowA EXCEPT !.amount = <<"I", "n", "f", "i", "n", "i", "t", "y">>]

RowInfExpense == [RowB EXCEPT !.amount = <<"I", "n", "f", "i", "n", "i", "t", "y">>]

StatisticsRows == {RowA, RowB, RowBad, RowTransfer, RowInfIncome, RowInfExpense}

\* the rows of the files read between the calls of the getters
GetterRows == {RowA, RowBad}

\* load of files with blank lines, and get_statistics between loads
NextStatistics ==
    \/ LoadOpen(Fields)
    \/ \E row \in StatisticsRows : line_num < MaxLines /\ ReadRow(row)
    \/ line_num < MaxLines /\ SkipBlankLine
    \/ EndOfFile
    \/ GetStatistics

SpecStatistics == Init /\ [][NextStatistics]_vars

\* load, the two getters, and a caller writing to the lists it was returned
NextGetters ==
    \/ LoadMissingFile
    \/ LoadEmptyFile
    \/ LoadOpen(Fields)
    \/ \E row \in GetterRows : line_num <= MaxKept /\ ReadRow(row)
    \/ EndOfFile
    \/ GetTransactions
    \/ GetValidationErrors
    \/ AppendToGot(CallersOwn)
    \/ PopFromGot

SpecGetters == Init /\ [][NextGetters]_vars

\* ------------------------------------------------------------------------
\* TransactionDatabase (database/database_controller.py): the table
\* transactions(id INTEGER PRIMARY KEY AUTOINCREMENT, date TEXT, amount REAL,
\* category TEXT, type TEXT, description TEXT) of a SQLite file
\* ------------------------------------------------------------------------
\* the ids the table assigns at most
MaxIds == 2

\* the connections open at once at most
MaxOpen == 2

\* str(n) of an int n >= 0
RECURSIVE DigitsOf(_)
DigitsOf(n) ==
    IF n < 10 THEN <<DigitChars[n + 1]>>
    ELSE Append(DigitsOf(n \div 10), DigitChars[(n % 10) + 1])

\* %m and %d of strftime: two digits
TwoDigits(n) == IF n < 10 THEN <<"0">> \o DigitsOf(n) ELSE DigitsOf(n)

\* date.strftime("%Y-%m-%d"); %Y of the C library is the year without padding
strftime(d) == DigitsOf(d.year) \o <<"-">> \o TwoDigits(d.month) \o <<"-">> \o TwoDigits(d.day)

\* a coefficient and exponent without the trailing zeros of the coefficient
RECURSIVE StripZeros(_, _)
StripZeros(c, e) ==
    IF c # 0 /\ c % 10 = 0 THEN StripZeros(c \div 10, e + 1) ELSE <<c, e>>

\* the exponent of the first digit of c * 10^e
Adjusted(c, e) == e + Len(DigitsOf(c)) - 1

FloatZero(sign) == [kind |-> "finite", sign |-> sign, digits |-> 0, exp |-> 0]

FloatInf(sign) == [kind |-> "inf", sign |-> sign, digits |-> 0, exp |-> 0]

\* the double nearest to digits * 10^exp, written by the digits of its
\* shortest repr: a double keeps every decimal of up to 15 digits between
\* 1E-307 and 1E+308, is inf from 1E+309 on and 0.0 below 1E-324
FloatOf(sign, n) ==
    IF Adjusted(n[1], n[2]) > 308 THEN FloatInf(sign)
    ELSE IF Adjusted(n[1], n[2]) < -324 THEN FloatZero(sign)
    ELSE [kind |-> "finite", sign |-> sign, digits |-> n[1], exp |-> n[2]]

\* float(d) of a Decimal that is not a NaN
float(d) ==
    IF d.kind = "inf" THEN FloatInf(d.sign)
    ELSE IF d.coef = 0 THEN FloatZero(d.sign)
    ELSE FloatOf(d.sign, StripZeros(d.coef, d.exp))

Zeros(n) == [i \in 1..n |-> "0"]

\* repr of a positive finite double in positional notation
Positional(ds, e) ==
    IF e >= 0 THEN ds \o Zeros(e) \o <<".", "0">>
    ELSE IF Len(ds) + e > 0
    THEN SubSeq(ds, 1, Len(ds) + e) \o <<".">> \o SubSeq(ds, Len(ds) + e + 1, Len(ds))
    ELSE <<"0", ".">> \o Zeros(0 - (Len(ds) + e)) \o ds

\* repr of a positive finite double in exponent notation
Scientific(ds, adj) ==
    <<Head(ds)>> \o (IF Len(ds) > 1 THEN <<".">> \o Tail(ds) ELSE <<>>)
    \o <<"e">> \o (IF adj < 0 THEN <<"-">> \o TwoDigits(0 - adj) ELSE <<"+">> \o TwoDigits(adj))

\* str(f) of a float: the shortest repr, positional from 1e-04 up to 1e16
str(f) ==
    (IF f.sign = 1 THEN <<"-">> ELSE <<>>) \o
    (IF f.kind = "inf" THEN T_inf
     ELSE IF f.digits = 0 THEN <<"0", ".", "0">>
     ELSE IF Adjusted(f.digits, f.exp) >= -4 /\ Adjusted(f.digits, f.exp) < 16
     THEN Positional(DigitsOf(f.digits), f.exp)
     ELSE Scientific(DigitsOf(f.digits), Adjusted(f.digits, f.exp)))

\* the row INSERT writes for the record t
StoredRow(id, t) ==
    [id |-> id, date |-> strftime(t.date), amount |-> float(t.amount),
     category |-> t.category, type |-> t.type, description |-> t.description]

\* a rowid taken as one more than the largest rowid in the table
NextRowId_maxRowid(rows, last) ==
    IF rows = {} THEN 1
    ELSE (CHOOSE i \in {r.id : r \in rows} : \A r \in rows : r.id <= i) + 1

\* AUTOINCREMENT: one more than the largest rowid the table has ever held,
\* which sqlite_sequence keeps
NextRowId(rows, last) == last + 1

\* insert_many(ts): executemany of the INSERT, row by row
RECURSIVE insert_many(_, _, _)
insert_many(rows, last, ts) ==
    IF ts = <<>> THEN [table |-> rows, sqlite_sequence |-> last]
    ELSE insert_many(rows \cup {StoredRow(NextRowId(rows, last), Head(ts))},
                     IF NextRowId(rows, last) > last THEN NextRowId(rows, last) ELSE last,
                     Tail(ts))

\* the order of the characters of a stored date under the BINARY collation
DateChars == <<" ", "-", "0", "1", "2", "3", "4", "5", "6", "7", "8", "9">>

CharRank(c) == CHOOSE i \in 1..Len(DateChars) : DateChars[i] = c

RECURSIVE TextLt(_, _)
TextLt(a, b) ==
    IF b = <<>> THEN FALSE
    ELSE IF a = <<>> THEN TRUE
    ELSE IF Head(a) = Head(b) THEN TextLt(Tail(a), Tail(b))
    ELSE CharRank(Head(a)) < CharRank(Head(b))

\* ORDER BY date: by the stored text, rows of one date in rowid order
RECURSIVE OrderByDate(_)
OrderByDate(rows) ==
    IF rows = {} THEN <<>>
    ELSE <<CHOOSE r \in rows :
               \A s \in rows \ {r} : TextLt(r.date, s.date) \/ (r.date = s.date /\ r.id < s.id)>>
         \o OrderByDate(rows \ {CHOOSE r \in rows :
               \A s \in rows \ {r} : TextLt(r.date, s.date) \/ (r.date = s.date /\ r.id < s.id)})

\* the dict built of a row: strptime of the date, Decimal(str(amount))
Fetched(r) ==
    [id |-> r.id, date |-> ParseDate(r.date).value, amount |-> ParseDecimal(str(r.amount)).value,
     category |-> r.category, type |-> r.type, description |-> r.description]

fetch_all(rows) ==
    IF \E r \in rows : ~ParseDate(r.date).ok THEN Raise("ValueError", <<>>)
    ELSE Return([i \in 1..Cardinality(rows) |-> Fetched(OrderByDate(rows)[i])])

fetch_by_id(rows, id) ==
    IF \A r \in rows : r.id # id THEN Return(None)
    ELSE IF ~ParseDate((CHOOSE r \in rows : r.id = id).date).ok THEN Raise("ValueError", <<>>)
    ELSE Return(Some(Fetched(CHOOSE r \in rows : r.id = id)))

\* update_transaction reporting success whatever the id
update_transaction_alwaysTrue(rows, id, new) ==
    [table |-> {IF r.id = id THEN [new EXCEPT !.id = id] ELSE r : r \in rows},
     value |-> TRUE]

\* UPDATE ... WHERE id = ?; return cursor.rowcount > 0
update_transaction(rows, id, new) ==
    [table |-> {IF r.id = id THEN [new EXCEPT !.id = id] ELSE r : r \in rows},
     value |-> \E r \in rows : r.id = id]

\* DELETE ... WHERE id = ?; return cursor.rowcount > 0
delete_by_id(rows, id) ==
    [table |-> {r \in rows : r.id # id}, value |-> \E r \in rows : r.id = id]

\* with self._connect() as conn: the block commits on leaving; the
\* connection is not closed by it
Connected(n) ==
    /\ conns + n <= MaxOpen
    /\ conns' = conns + n

\* the interpreter reclaims the connection objects no name refers to
Finalize ==
    /\ conns > 0
    /\ conns' = 0
    /\ UNCHANGED <<importerVars, call, ret, got, filterVars, table, sqlite_sequence,
                   current_transactions>>

InsertMany(ts) ==
    /\ Connected(1)
    /\ sqlite_sequence + Len(ts) <= MaxIds
    /\ table' = insert_many(table, sqlite_sequence, ts).table
    /\ sqlite_sequence' = insert_many(table, sqlite_sequence, ts).sqlite_sequence
    /\ call' = [fn |-> "insert_many", transactions |-> ts]
    /\ ret' = Return(None)
    /\ UNCHANGED <<importerVars, got, filterVars, current_transactions>>

FetchAll ==
    /\ Connected(1)
    /\ call' = [fn |-> "fetch_all"]
    /\ ret' = fetch_all(table)
    /\ UNCHANGED <<importerVars, got, filterVars, table, sqlite_sequence, current_transactions>>

FetchById(id) ==
    /\ Connected(1)
    /\ call' = [fn |-> "fetch_by_id", id |-> id]
    /\ ret' = fetch_by_id(table, id)
    /\ UNCHANGED <<importerVars, got, filterVars, table, sqlite_sequence, current_transactions>>

UpdateTransaction(id, new) ==
    /\ Connected(1)
    /\ table' = update_transaction(table, id, new).table
    /\ call' = [fn |-> "update_transaction", id |-> id, new |-> new]
    /\ ret' = Return(update_transaction(table, id, new).value)
    /\ UNCHANGED <<importerVars, got, filterVars, sqlite_sequence, current_transactions>>

DeleteById(id) ==
    /\ Connected(1)
    /\ table' = delete_by_id(table, id).table
    /\ call' = [fn |-> "delete_by_id", id |-> id]
    /\ ret' = Return(delete_by_id(table, id).value)
    /\ UNCHANGED <<importerVars, got, filterVars, sqlite_sequence, current_transactions>>

\* DELETE FROM transactions: sqlite_sequence keeps its row
ClearAll ==
    /\ Connected(1)
    /\ table' = {}
    /\ call' = [fn |-> "clear_all"]
    /\ ret' = Return(None)
    /\ UNCHANGED <<importerVars, got, filterVars, sqlite_sequence, current_transactions>>

\* ------------------------------------------------------------------------
\* database_menu (database/database_main.py)
\* ------------------------------------------------------------------------
\* read_decimal(text): the amount, or None for one validate_amount rejects
read_decimal(text) ==
    IF validate_amount(text, <<>>).ok THEN Some(validate_amount(text, <<>>).value) ELSE None

\* choice 1: load of a file that gives the records ts, then get_transactions
MenuImport(ts) ==
    /\ current_transactions' = ts
    /\ call' = [fn |-> "database_menu", choice |-> 1]
    /\ ret' = Return(None)
    /\ UNCHANGED <<importerVars, got, filterVars, table, sqlite_sequence, conns>>

\* choice 2, mode 1: insert_many of the list held
MenuSaveAppend ==
    /\ current_transactions # <<>>
    /\ Connected(1)
    /\ sqlite_sequence + Len(current_transactions) <= MaxIds
    /\ table' = insert_many(table, sqlite_sequence, current_transactions).table
    /\ sqlite_sequence' = insert_many(table, sqlite_sequence, current_transactions).sqlite_sequence
    /\ call' = [fn |-> "database_menu", choice |-> 2]
    /\ ret' = Return(None)
    /\ UNCHANGED <<importerVars, got, filterVars, current_transactions>>

\* choice 2, mode 2, confirmed: clear_all, then insert_many of the list held
MenuSaveOverwrite ==
    /\ current_transactions # <<>>
    /\ Connected(2)
    /\ sqlite_sequence + Len(current_transactions) <= MaxIds
    /\ table' = insert_many({}, sqlite_sequence, current_transactions).table
    /\ sqlite_sequence' = insert_many({}, sqlite_sequence, current_transactions).sqlite_sequence
    /\ call' = [fn |-> "database_menu", choice |-> 2]
    /\ ret' = Return(None)
    /\ UNCHANGED <<importerVars, got, filterVars, current_transactions>>

\* choice 3: current_transactions = db.fetch_all()
MenuLoad ==
    /\ Connected(1)
    /\ fetch_all(table).ok
    /\ current_transactions' = fetch_all(table).value
    /\ call' = [fn |-> "database_menu", choice |-> 3]
    /\ ret' = Return(None)
    /\ UNCHANGED <<importerVars, got, filterVars, table, sqlite_sequence>>

\* the text kept for the date: the text typed when strptime takes it
EditedDate(transaction, typed) ==
    IF typed # <<>> /\ ParseDate(typed).ok THEN typed ELSE strftime(transaction.date)

\* the amount of the update: the amount typed when there is one, which is
\* None for a text read_decimal rejects
EditedAmount(transaction, typed) ==
    IF typed # <<>> THEN read_decimal(typed) ELSE Some(transaction.amount)

\* a text as typed when there is one, the current value otherwise
EditedText(current, typed) == IF typed # <<>> THEN typed ELSE current

\* the row the edit asks update_transaction to write
EditedRow(transaction, e) ==
    [id |-> transaction.id,
     date |-> EditedDate(transaction, strip(e.date)),
     amount |-> float(EditedAmount(transaction, strip(e.amount))[1]),
     category |-> EditedText(transaction.category, strip(e.category)),
     type |-> EditedText(transaction.type, strip(e.type)),
     description |-> EditedText(transaction.description, strip(e.description))]

\* choice 5 once the row is found: float(None) raises TypeError, which the
\* handler prints; otherwise update_transaction runs
EditFound(transaction, id, e) ==
    IF EditedAmount(transaction, strip(e.amount)) = None
    THEN /\ Connected(1)
         /\ ret' = Raise("TypeError", <<>>)
         /\ UNCHANGED table
    ELSE /\ Connected(2)
         /\ table' = update_transaction(table, id, EditedRow(transaction, e)).table
         /\ ret' = Return(update_transaction(table, id, EditedRow(transaction, e)).value)

\* choice 5: fetch_by_id, the five inputs, update_transaction
MenuEdit(id, e) ==
    /\ fetch_by_id(table, id).ok
    /\ IF fetch_by_id(table, id).value = None
       THEN /\ Connected(1)
            /\ ret' = Return(None)
            /\ UNCHANGED table
       ELSE EditFound(fetch_by_id(table, id).value[1], id, e)
    /\ call' = [fn |-> "database_menu", choice |-> 5, id |-> id, input |-> e]
    /\ UNCHANGED <<importerVars, got, filterVars, sqlite_sequence, current_transactions>>

\* choice 6: fetch_by_id, the confirmation, delete_by_id
MenuDelete(id, confirm) ==
    /\ fetch_by_id(table, id).ok
    /\ IF fetch_by_id(table, id).value # None /\ confirm
       THEN /\ Connected(2)
            /\ table' = delete_by_id(table, id).table
       ELSE /\ Connected(1)
            /\ UNCHANGED table
    /\ call' = [fn |-> "database_menu", choice |-> 6]
    /\ ret' = Return(None)
    /\ UNCHANGED <<importerVars, got, filterVars, sqlite_sequence, current_transactions>>

\* choice 7, confirmed: clear_all
MenuClear ==
    /\ Connected(1)
    /\ table' = {}
    /\ call' = [fn |-> "database_menu", choice |-> 7]
    /\ ret' = Return(None)
    /\ UNCHANGED <<importerVars, got, filterVars, sqlite_sequence, current_transactions>>

\* the rows of the files imported through the menu
RowTiny == [RowA EXCEPT !.date = <<"2", "0", "2", "4", "-", "0", "3", "-", "0", "1">>, !.amount = <<"1", "E", "-", "4", "0", "0">>]

Validated(row) == validate_record(DATE_FORMAT, row, <<2>>).value

\* the lists load leaves in the importer: the later date first in the last one
ImportedLists ==
    {<<Validated(RowA)>>, <<Validated(RowTiny)>>, <<Validated(RowB), Validated(RowA)>>}

\* the rows given to update_transaction
UpdateRows ==
    {[id |-> 0, date |-> <<"2", "0", "2", "4", "-", "0", "1", "-", "0", "1">>, amount |-> float(Finite(0, 75, -1)),
      category |-> <<"F", "u", "n">>, type |-> T_transfer, description |-> <<"c", "i", "n", "e", "m", "a">>]}

\* what is typed at the five prompts of the edit
Typed(date, amount, category, type, description) ==
    [date |-> date, amount |-> amount, category |-> category, type |-> type,
     description |-> description]

EditInputs ==
    {Typed(<<"2", "0", "2", "4", "-", "1", "-", "5">>, <<" ", "7", " ">>, <<>>, <<"G", "i", "f", "t">>, <<>>),
     Typed(<<>>, <<"-", "5">>, <<"F", "u", "n">>, <<>>, <<>>)}

\* a new TransactionDatabase on a new file: _init_db has opened a connection
InitDatabase ==
    /\ transactions = <<>>
    /\ validation_errors = <<>>
    /\ pc = "idle"
    /\ raised = NoException
    /\ fieldnames = {}
    /\ rows_read = <<>>
    /\ line_num = 0
    /\ call = NoCall
    /\ ret = NotCalled
    /\ NoFilter
    /\ got = NoList
    /\ table = {}
    /\ sqlite_sequence = 0
    /\ current_transactions = <<>>
    /\ conns = 1

\* the operations of TransactionDatabase, called directly
NextDatabase ==
    \/ \E ts \in ImportedLists : InsertMany(ts)
    \/ FetchAll
    \/ \E id \in 1..MaxIds : FetchById(id)
    \/ \E id \in 1..MaxIds, new \in UpdateRows : UpdateTransaction(id, new)
    \/ \E id \in 1..MaxIds : DeleteById(id)
    \/ ClearAll
    \/ Finalize

SpecDatabase == InitDatabase /\ [][NextDatabase]_vars

\* the choices of database_menu
NextMenu ==
    \/ \E ts \in ImportedLists : MenuImport(ts)
    \/ MenuSaveAppend
    \/ MenuSaveOverwrite
    \/ MenuLoad
    \/ \E id \in 1..MaxIds, e \in EditInputs : MenuEdit(id, e)
    \/ \E id \in 1..MaxIds, confirm \in BOOLEAN : MenuDelete(id, confirm)
    \/ MenuClear
    \/ Finalize

SpecMenu == InitDatabase /\ [][NextMenu]_vars

\* ------------------------------------------------------------------------
\* Vocabulary of the properties
\* ------------------------------------------------------------------------
Range(seq) == {seq[i] : i \in 1..Len(seq)}

LoadOver == pc \in {"returned", "raised"}

IsAggregated(e) ==
    ~e.ok /\ e.exc = "ValueError" /\ e.msg.text = "No valid transactions found. Errors:"

\* file missing, empty or header-less file, undecodable bytes
IsInputShapeError(e) ==
    /\ ~e.ok
    /\ \/ e.exc = "FileNotFoundError"
       \/ /\ e.exc = "ValueError"
          /\ e.msg.text \in {"CSV file is empty or has no header row",
                             "Cannot decode file with utf-8 encoding. Try a different encoding."}

\* a required field without a usable value: key absent, value absent, or blank
FieldMissing(record, f) ==
    \/ f \notin DOMAIN record
    \/ record[f] = NoneVal
    \/ strip(record[f]) = <<>>

MissingSet(record) == {f \in Fields : FieldMissing(record, f)}

AmountOk(text) ==
    /\ ParseDecimal(text).ok
    /\ ~IsNaN(ParseDecimal(text).value)
    /\ DecimalGtZero(ParseDecimal(text).value)

\* the constraint of each field, on the raw cell text
FieldOk(record, f) ==
    CASE f = "date"        -> ParseDate(strip(record[f])).ok
      [] f = "amount"      -> AmountOk(record[f])
      [] f = "category"    -> Len(strip(record[f])) >= 2
      [] f = "type"        -> lower(strip(record[f])) \in {T_income, T_expense, T_transfer}
      [] f = "description" -> strip(record[f]) # <<>>

\* a row that meets all five field constraints
ValidRow(record) ==
    /\ MissingSet(record) = {}
    /\ \A f \in Fields : FieldOk(record, f)

\* the rows of a sequence that are valid, in order
ValidRowsOf(rows) == SelectSeq(rows, ValidRow)

\* the field an error text belongs to
FieldOfText(text) ==
    CASE text = "Invalid date format" -> "date"
      [] text \in {"Invalid amount format", "Amount cannot be negative",
                   "Amount cannot be zero"} -> "amount"
      [] text = "Category must be at least 2 characters long" -> "category"
      [] text = "Invalid transaction type" -> "type"
      [] text = "Description cannot be empty" -> "description"
      [] OTHER -> "none"

\* the five constraints on a stored record
RecordConstraints(t) ==
    /\ t.date.month \in 1..12
    /\ t.date.day \in 1..DaysInMonth(t.date.year, t.date.month)
    /\ ~IsNaN(t.amount) /\ DecimalGtZero(t.amount)
    /\ t.category = strip(t.category) /\ Len(t.category) >= 2
    /\ t.type \in {T_income, T_expense, T_transfer}
    /\ t.description = strip(t.description) /\ t.description # <<>>

\* ------------------------------------------------------------------------
\* Properties of load
\* ------------------------------------------------------------------------

\* C1: no failure of a single data row leaves load as an exception: load
\* raises only its own conditions (file not found, empty file, decode
\* failure, aggregated failure), and while it is reading every row read so
\* far has added exactly one entry to one of the two lists.
C1_RowFailuresStayInside ==
    /\ pc = "raised" => (IsInputShapeError(raised) \/ IsAggregated(raised))
    /\ pc = "rows" => Len(transactions) + Len(validation_errors) = Len(rows_read)

\* C2: every record held in the valid list meets all five field constraints
\* at once, after any sequence of load calls and at every point of a load.
C2_HeldRecordsValid ==
    \A i \in 1..Len(transactions) : RecordConstraints(transactions[i])

\* C2 witness: a load that took a failing row holds a record made from a row
\* whose cells needed trimming and lowercasing.
C2_Witness ==
    /\ validation_errors # <<>>
    /\ \E i \in 1..Len(transactions) : transactions[i].original_record = RowB

\* C3: after any load call, returned or raised, the two lists hold no entry
\* of an earlier load: every held record comes from a row this call read and
\* every held message names a row this call read.
C3_PriorStateCleared ==
    LoadOver =>
        /\ \A i \in 1..Len(transactions) :
               transactions[i].original_record \in Range(rows_read)
        /\ \A i \in 1..Len(validation_errors) :
               \E j \in 1..Len(rows_read) : validation_errors[i].row = <<j + 1>>

\* C4: when load fails with an input-shape error, the valid list holds no
\* record made from the rows of that attempt.
C4_NoPartialRecords ==
    (pc = "raised" /\ IsInputShapeError(raised)) =>
        \A i \in 1..Len(transactions) :
            transactions[i].original_record \notin Range(rows_read)

\* C5: once all rows are processed, load raises the aggregated failure iff
\* the valid list is empty and the error list is not; so a load that returns
\* does not hold only errors, and an aggregated failure means the file had at
\* least one row and no valid row.
C5_AggregatedIffNoValid ==
    /\ pc = "returned" => ~(transactions = <<>> /\ validation_errors # <<>>)
    /\ (pc = "raised" /\ IsAggregated(raised)) =>
           /\ transactions = <<>>
           /\ validation_errors # <<>>
           /\ rows_read # <<>>
           /\ \A i \in 1..Len(rows_read) : ~ValidRow(rows_read[i])

\* C5 witness: a load of a file with rows, none valid, raised the aggregated failure.
C5_Witness ==
    /\ pc = "raised"
    /\ IsAggregated(raised)
    /\ Len(rows_read) >= 2

\* C6: the aggregated failure for n errors embeds exactly the first min(5, n)
\* messages in file order, and a remaining count, n - 5, exactly when n > 5.
C6_FirstFiveAndOverflow ==
    (pc = "raised" /\ IsAggregated(raised)) =>
        LET n == Len(validation_errors)
            shown == raised.msg.shown
        IN  /\ Len(shown) = (IF n < 5 THEN n ELSE 5)
            /\ \A i \in 1..Len(shown) :
                   shown[i] = validation_errors[i] /\ shown[i].row = <<i + 1>>
            /\ raised.msg.more = (IF n > 5 THEN <<n - 5>> ELSE <<>>)

\* C6 witness: an aggregated failure for more than five errors.
C6_Witness ==
    /\ pc = "raised"
    /\ IsAggregated(raised)
    /\ Len(validation_errors) > 5
    /\ raised.msg.more # <<>>

\* C7: a load of a file with N data rows of which K < N are not valid returns,
\* holding N - K records and K messages, the records being those of the valid
\* rows in file order.
C7_RowIsolation ==
    (LoadOver /\ ~IsInputShapeError(raised)
       /\ Len(ValidRowsOf(rows_read)) > 0) =>
        /\ pc = "returned"
        /\ Len(transactions) = Len(ValidRowsOf(rows_read))
        /\ Len(validation_errors) = Len(rows_read) - Len(ValidRowsOf(rows_read))
        /\ \A i \in 1..Len(transactions) :
               transactions[i].original_record = ValidRowsOf(rows_read)[i]

\* ------------------------------------------------------------------------
\* Properties of the validators, over the direct calls
\* ------------------------------------------------------------------------
Called(fn) == call.fn = fn /\ ret # NotCalled

Failed(result, text) ==
    ~result.ok /\ result.exc = "ValidationError" /\ result.msg.text = text

\* the first field, in the order date, amount, category, type, description,
\* whose constraint the record does not meet (0 when it meets them all)
FirstInvalid(record) ==
    IF \A i \in 1..Len(REQUIRED_FIELDS) : FieldOk(record, REQUIRED_FIELDS[i]) THEN 0
    ELSE CHOOSE i \in 1..Len(REQUIRED_FIELDS) :
             /\ ~FieldOk(record, REQUIRED_FIELDS[i])
             /\ \A j \in 1..(i - 1) : FieldOk(record, REQUIRED_FIELDS[j])

InvalidCount(record) == Cardinality({f \in Fields : ~FieldOk(record, f)})

\* C8: for every row missing at least one required field (key absent, value
\* absent, or blank after trimming) validate_record fails with one
\* ValidationError, raised by the presence check, that lists every missing
\* field.
C8_AllMissingFieldsListed ==
    (Called("validate_record") /\ MissingSet(call.record) # {}) =>
        /\ Failed(ret, "Missing required fields")
        /\ Range(ret.msg.fields) = MissingSet(call.record)

\* C9: when all five fields are present, validate_record fails iff some field
\* is invalid, and then with the one error of the first invalid field in the
\* order date, amount, category, type, description.
C9_FirstInvalidFieldWins ==
    (Called("validate_record") /\ MissingSet(call.record) = {}) =>
        IF FirstInvalid(call.record) = 0 THEN ret.ok
        ELSE /\ ~ret.ok
             /\ ret.exc = "ValidationError"
             /\ FieldOfText(ret.msg.text) = REQUIRED_FIELDS[FirstInvalid(call.record)]

\* C9 witness: a row with a valid date and an invalid amount, category and
\* type failed with the error of its amount.
C9_Witness ==
    /\ Called("validate_record")
    /\ MissingSet(call.record) = {}
    /\ InvalidCount(call.record) >= 3
    /\ FieldOk(call.record, "date")
    /\ ~ret.ok
    /\ FieldOfText(ret.msg.text) = "amount"

\* C10: validate_amount has exactly one outcome per input: the invalid-format
\* failure for text that is no number, the negative failure for a value < 0,
\* the zero failure for a value = 0, and the parsed decimal itself for a
\* value > 0; a call without a row number puts no row in the message.  (A NaN
\* is none of < 0, = 0, > 0: its comparison fails and it gets the
\* invalid-format failure.)
C10_AmountOutcomes ==
    Called("validate_amount") =>
        LET parsed == ParseDecimal(call.amount_str)
        IN  /\ ~parsed.ok => Failed(ret, "Invalid amount format")
            /\ (parsed.ok /\ IsNaN(parsed.value)) => Failed(ret, "Invalid amount format")
            /\ (parsed.ok /\ ~IsNaN(parsed.value)) =>
                   /\ (parsed.value.sign = 1 /\ ~DecimalEqZero(parsed.value)) =>
                          Failed(ret, "Amount cannot be negative")
                   /\ DecimalEqZero(parsed.value) => Failed(ret, "Amount cannot be zero")
                   /\ DecimalGtZero(parsed.value) => ret = Return(parsed.value)
            /\ ~ret.ok => ret.msg.row = call.row_num

\* C10 witness: a call without a row number failed on a negative amount and
\* its message has no row.
C10_Witness ==
    /\ Called("validate_amount")
    /\ call.row_num = <<>>
    /\ Failed(ret, "Amount cannot be negative")
    /\ ret.msg.row = <<>>

\* C11: for every valid row validate_record returns a record with exactly
\* the normalized values (trimmed category and description, trimmed and
\* lowercased type, parsed date and amount) and the raw row itself under
\* original_record.
C11_ValidRowNormalized ==
    (Called("validate_record") /\ ValidRow(call.record)) =>
        /\ ret.ok
        /\ DOMAIN ret.value =
               {"date", "amount", "category", "type", "description", "original_record"}
        /\ ret.value.date = ParseDate(strip(call.record["date"])).value
        /\ ret.value.amount = ParseDecimal(call.record["amount"]).value
        /\ ret.value.category = strip(call.record["category"])
        /\ ret.value.type = lower(strip(call.record["type"]))
        /\ ret.value.description = strip(call.record["description"])
        /\ ret.value.original_record = call.record

\* C11 witness: a valid row whose cells all needed trimming, and whose type
\* needed lowercasing, was returned.
C11_Witness ==
    /\ Called("validate_record")
    /\ ValidRow(call.record)
    /\ ret.ok
    /\ \A f \in Fields : call.record[f] # strip(call.record[f])
    /\ ret.value.type # strip(call.record["type"])

\* ------------------------------------------------------------------------
\* Properties of TransactionFilter
\* ------------------------------------------------------------------------

\* the chained calls that pass the given criteria of c: one call of the
\* matching predicate for each criterion that is given
ChainOfDates(ts, c) ==
    IF c.start_date # None /\ c.end_date # None
    THEN by_date_range(ts, c.start_date[1], c.end_date[1])
    ELSE ts

ChainOfAmounts(ts, c) ==
    IF c.min_amount # None \/ c.max_amount # None
    THEN by_amount_range(ts, c.min_amount, c.max_amount)
    ELSE ts

ChainOfCategory(ts, c) ==
    IF c.category # None THEN by_category(ts, c.category[1]) ELSE ts

ChainOfCategories(ts, c) ==
    IF c.categories # None THEN by_categories(ts, c.categories[1]) ELSE ts

ChainOfType(ts, c) ==
    IF c.transaction_type # None THEN by_type(ts, c.transaction_type[1]) ELSE ts

ChainOfKeyword(ts, c) ==
    IF c.description_keyword # None THEN by_description(ts, c.description_keyword[1]) ELSE ts

ChainOf(ts, c) ==
    ChainOfKeyword(ChainOfType(ChainOfCategories(ChainOfCategory(
        ChainOfAmounts(ChainOfDates(ts, c), c), c), c), c), c)

\* C12: for every record list and every combination of criterion values,
\* boundary values included, apply_filters returns the list that chaining
\* the single-predicate calls with the same values leaves in the filter.
C12_ModesAgree ==
    Called("apply_filters") => ret.value = ChainOf(heap[held], call.criteria)

\* the amount-range condition: each bound counts whenever it is given
InAmountRange(t, min_amount, max_amount) ==
    /\ min_amount # None => DecimalGe(t.amount, min_amount[1])
    /\ max_amount # None => DecimalLe(t.amount, max_amount[1])

\* the records of ts within the amount range, in order
WithinAmounts(ts, min_amount, max_amount) ==
    LET Keep(t) == InAmountRange(t, min_amount, max_amount)
    IN  SelectSeq(ts, Keep)

\* C13: by_amount_range keeps a record iff its amount is >= min when min is
\* given and <= max when max is given, for every value of a bound, 0
\* included; a bound has no effect only when it is not given.
C13_AmountBoundsOptional ==
    Called("by_amount_range") =>
        heap[held] = WithinAmounts(initial, call.min_amount, call.max_amount)

\* the list the chained call c computes from the list ts
CallOn(c, ts) ==
    CASE c.fn = "by_date_range" -> by_date_range(ts, c.start_date, c.end_date)
      [] c.fn = "by_amount_range" -> by_amount_range(ts, c.min_amount, c.max_amount)
      [] c.fn = "by_category" -> by_category(ts, c.category)
      [] c.fn = "by_categories" -> by_categories(ts, c.categories)
      [] c.fn = "by_type" -> by_type(ts, c.transaction_type)
      [] c.fn = "by_description" -> by_description(ts, c.keyword)
      [] c.fn = "by_custom" -> by_custom(ts, c.predicate)

\* C14: filter commutativity: after any two chained predicate calls the
\* filter holds the list the two calls give in the other order, with the
\* same records in the same order.
C14_ChainCommutes ==
    Len(log) = 2 => heap[held] = CallOn(log[1], CallOn(log[2], initial))

\* C14 witness: by_type and then by_amount_range were chained over three
\* records; the first call dropped one record and the second another.
C14_Witness ==
    /\ Len(log) = 2
    /\ log[1].fn = "by_type"
    /\ log[2].fn = "by_amount_range"
    /\ Len(initial) = 3
    /\ Len(CallOn(log[1], initial)) = 2
    /\ Len(heap[held]) = 1

\* C15: filter idempotence: a chained predicate called twice in a row with
\* the same arguments leaves the filter holding what one call leaves.
C15_ChainIdempotent ==
    (Len(log) = 2 /\ log[1].fn = log[2].fn /\ log[1] = log[2]) =>
        heap[held] = CallOn(log[1], initial)

\* C15 witness: by_category was called twice with the same category, and it
\* kept some records and dropped others.
C15_Witness ==
    /\ Len(log) = 2
    /\ log[1].fn = "by_category"
    /\ log[1] = log[2]
    /\ heap[held] # <<>>
    /\ heap[held] # initial

\* a date as one number that grows with the date
DayNumber(d) == d.year * 10000 + d.month * 100 + d.day

\* the records of ts dated from start to end, both days included, in order
WithinDates(ts, start, end) ==
    LET Keep(t) == DayNumber(start) <= DayNumber(t.date) /\ DayNumber(t.date) <= DayNumber(end)
    IN  SelectSeq(ts, Keep)

\* the criteria c without its two dates
WithoutDates(c) == [c EXCEPT !.start_date = None, !.end_date = None]

\* C16: the date range is inclusive on both ends: by_date_range, and
\* apply_filters given both dates, keep a record iff start <= date <= end;
\* apply_filters given only one of the two dates does not filter by date.
C16_DateRangeInclusive ==
    /\ Called("by_date_range") =>
           heap[held] = WithinDates(initial, call.start_date, call.end_date)
    /\ Called("apply_filters") =>
           IF call.criteria.start_date # None /\ call.criteria.end_date # None
           THEN ret.value =
                    WithinDates(apply_filters(initial, WithoutDates(call.criteria)),
                                call.criteria.start_date[1], call.criteria.end_date[1])
           ELSE ret.value = apply_filters(initial, WithoutDates(call.criteria))

\* C16 witness: by_date_range kept a record dated exactly the end date and
\* dropped a later one.
C16_Witness ==
    /\ Called("by_date_range")
    /\ \E i \in 1..Len(heap[held]) : heap[held][i].date = call.end_date
    /\ Len(heap[held]) < Len(initial)

\* the record t meets every criterion of c that is given: the date range
\* when both dates are given, each amount bound, the category, one of the
\* categories, the type and the keyword, each compared the way its predicate
\* is specified
Satisfies(t, c) ==
    /\ (c.start_date # None /\ c.end_date # None) =>
           /\ DayNumber(c.start_date[1]) <= DayNumber(t.date)
           /\ DayNumber(t.date) <= DayNumber(c.end_date[1])
    /\ InAmountRange(t, c.min_amount, c.max_amount)
    /\ c.category # None => lower(t.category) = lower(c.category[1])
    /\ c.categories # None => lower(t.category) \in LowerSet(c.categories[1])
    /\ c.transaction_type # None =>
           lower(strip(t.type)) = lower(strip(c.transaction_type[1]))
    /\ c.description_keyword # None =>
           Contains(lower(t.description), lower(c.description_keyword[1]))

\* the records of ts that meet every given criterion of c, in order
Matching(ts, c) ==
    LET Keep(t) == Satisfies(t, c)
    IN  SelectSeq(ts, Keep)

\* C17: apply_filters returns exactly the records of the held list that
\* satisfy every given criterion at once, in their original order.
C17_AllCriteriaAnded ==
    Called("apply_filters") => ret.value = Matching(initial, call.criteria)

\* the textual criteria of c that apply_filters applies hold of the record
\* t, whatever the letter case of either side
TextsMatch(t, c) ==
    /\ Truthy(c.category) => lower(t.category) = lower(c.category[1])
    /\ Truthy(c.categories) => lower(t.category) \in LowerSet(c.categories[1])
    /\ Truthy(c.transaction_type) =>
           lower(strip(t.type)) = lower(strip(c.transaction_type[1]))
    /\ Truthy(c.description_keyword) =>
           Contains(lower(t.description), lower(c.description_keyword[1]))

\* the criteria c without its textual ones
WithoutTexts(c) ==
    [c EXCEPT !.category = None, !.categories = None, !.transaction_type = None,
              !.description_keyword = None]

\* the records of ts whose category is the given one, letter case aside
OfCategory(ts, category) ==
    LET Keep(t) == lower(t.category) = lower(category)
    IN  SelectSeq(ts, Keep)

\* the records of ts whose category is one of the given ones, letter case aside
OfCategories(ts, categories) ==
    LET Keep(t) == lower(t.category) \in LowerSet(categories)
    IN  SelectSeq(ts, Keep)

\* the records of ts whose type is the given one, letter case and outer blanks aside
OfType(ts, transaction_type) ==
    LET Keep(t) == lower(strip(t.type)) = lower(strip(transaction_type))
    IN  SelectSeq(ts, Keep)

\* the records of ts whose description has the keyword in it, letter case aside
Describing(ts, keyword) ==
    LET Keep(t) == Contains(lower(t.description), lower(keyword))
    IN  SelectSeq(ts, Keep)

\* the records of ts that match the textual criteria of c
MatchingTexts(ts, c) ==
    LET Keep(t) == TextsMatch(t, c)
    IN  SelectSeq(ts, Keep)

\* C18: every textual predicate is case-insensitive on both sides: category
\* matches exactly after lowercasing the argument and the record's value,
\* type after trimming and lowercasing both, description by substring after
\* lowercasing both; the same for the textual criteria of apply_filters.
C18_TextCaseInsensitive ==
    /\ Called("by_category") => heap[held] = OfCategory(initial, call.category)
    /\ Called("by_categories") => heap[held] = OfCategories(initial, call.categories)
    /\ Called("by_type") => heap[held] = OfType(initial, call.transaction_type)
    /\ Called("by_description") => heap[held] = Describing(initial, call.keyword)
    /\ Called("apply_filters") =>
           ret.value = MatchingTexts(apply_filters(initial, WithoutTexts(call.criteria)),
                                     call.criteria)

\* C19: filtering never changes the caller's list: after any sequence of
\* chained predicates, apply_filters calls, get_results and reset, the list
\* the filter was built over has the elements it had, in the same order.
C19_SourceUntouched ==
    source # 0 => heap[source] = initial

\* C19 witness: by_amount_range narrowed the held list after the caller had
\* been returned a list, and the caller's own list is as it was.
C19_Witness ==
    /\ call.fn = "by_amount_range"
    /\ returned # 0
    /\ Len(heap[held]) < Len(initial)
    /\ heap[source] = initial

\* C20: get_results returns a copy: whatever the caller adds to or removes
\* from the returned list, the filter holds what it held when it returned
\* it; and reset makes the held list a new list equal to the given one,
\* whatever was narrowed before.
C20_CopiesOutAndIn ==
    /\ call.fn = "get_results" =>
           /\ returned # held
           /\ heap[held] = ret.value
    /\ call.fn = "reset" =>
           /\ held # source
           /\ heap[held] = heap[source]

\* C20 witness: after a narrowing the caller changed the list get_results
\* returned, and the filter holds what it held.
C20_Witness ==
    /\ call.fn = "get_results"
    /\ heap[returned] # ret.value
    /\ heap[held] = ret.value
    /\ heap[held] # initial

\* a is b with some elements left out, the others in b's order
RECURSIVE IsSubList(_, _)
IsSubList(a, b) ==
    IF a = <<>> THEN TRUE
    ELSE IF b = <<>> THEN FALSE
    ELSE IF Head(a) = Head(b) THEN IsSubList(Tail(a), Tail(b))
    ELSE IsSubList(a, Tail(b))

\* a call of apply_filters has just returned
AppliedFilters == call'.fn = "apply_filters" /\ (call' # call \/ ret' # ret)

\* C28: a call of apply_filters leaves the filter holding the same list with
\* the same elements, so get_results before and after it are equal, and the
\* list it returns is what the criteria keep of the held list of the moment
\* of the call, which is an order-preserving sub-list of that held list
C28_ApplyFiltersKeepsHeld ==
    [][AppliedFilters =>
        /\ held' = held
        /\ heap'[held'] = heap[held]
        /\ ret'.ok
        /\ ret'.value = apply_filters(heap[held], call'.criteria)
        /\ IsSubList(ret'.value, heap[held])]_vars

\* apply_filters returned a proper non-empty part of a held list that chained
\* predicates had already narrowed
C28_Witness ==
    /\ Called("apply_filters")
    /\ ret.value # <<>>
    /\ ret.value # heap[held]
    /\ heap[held] # heap[source]
    /\ IsSubList(ret.value, heap[held])

\* the two lists the importer holds
HeldLists == <<transactions, validation_errors>>

\* a call of fn has just returned
JustReturned(fn) == call'.fn = fn /\ (call' # call \/ ret' # ret)

\* C21: get_transactions and get_validation_errors return the elements the
\* importer holds, and no step changes both a returned list and a list the
\* importer holds: the caller's appends and removals leave the importer's
\* lists alone, and a later load, which clears and refills the importer's
\* lists, leaves a list returned earlier alone
C21_GettersReturnCopies ==
    [][/\ HeldLists' # HeldLists => got' = got
       /\ JustReturned("get_transactions") =>
              ret'.value = transactions /\ got'.items = transactions /\ HeldLists' = HeldLists
       /\ JustReturned("get_validation_errors") =>
              ret'.value = validation_errors /\ got'.items = validation_errors
              /\ HeldLists' = HeldLists]_vars

\* a list of records returned by get_transactions is still whole after a later
\* load has cleared the importer's list
C21_Witness ==
    /\ got.of = "transactions"
    /\ Len(got.items) = 1
    /\ got.items[1] # CallersOwn
    /\ transactions = <<>>
    /\ pc = "rows"

\* the least exponent of the finite amounts of ts, 0 at most
RECURSIVE LeastExp(_)
LeastExp(ts) ==
    IF ts = <<>> THEN 0
    ELSE IF Head(ts).amount.kind = "finite"
    THEN Min(Head(ts).amount.exp, LeastExp(Tail(ts)))
    ELSE LeastExp(Tail(ts))

\* the finite amounts of the records of ts of one type, added up in units of 10^e
RECURSIVE UnitsOf(_, _, _)
UnitsOf(ts, type, e) ==
    IF ts = <<>> THEN 0
    ELSE (IF Head(ts).type = type /\ Head(ts).amount.kind = "finite"
          THEN Scaled(Head(ts).amount, e) ELSE 0) + UnitsOf(Tail(ts), type, e)

HasInfinite(ts, type) ==
    \E i \in 1..Len(ts) : ts[i].type = type /\ ts[i].amount.kind = "inf"

\* d is the sum of the amounts of the records of ts of one type
IsTotal(d, ts, type) ==
    IF HasInfinite(ts, type) THEN d.kind = "inf" /\ d.sign = 0
    ELSE d.kind = "finite" /\ Scaled(d, LeastExp(ts)) = UnitsOf(ts, type, LeastExp(ts))

\* d is the income of ts less its expense; no value is when both are infinite
IsNet(d, ts) ==
    CASE HasInfinite(ts, T_income) /\ HasInfinite(ts, T_expense) -> FALSE
      [] HasInfinite(ts, T_income) -> d.kind = "inf" /\ d.sign = 0
      [] HasInfinite(ts, T_expense) -> d.kind = "inf" /\ d.sign = 1
      [] OTHER -> /\ d.kind = "finite"
                  /\ Scaled(d, LeastExp(ts)) =
                         UnitsOf(ts, T_income, LeastExp(ts)) - UnitsOf(ts, T_expense, LeastExp(ts))

\* r is the first and the last day of the records of ts, none for no record
IsDateSpan(r, ts) ==
    IF ts = <<>> THEN r = None
    ELSE /\ Len(r) = 2
         /\ \E i \in 1..Len(ts) : ts[i].date = r[1]
         /\ \E i \in 1..Len(ts) : ts[i].date = r[2]
         /\ \A i \in 1..Len(ts) :
                DayNumber(r[1]) <= DayNumber(ts[i].date) /\ DayNumber(ts[i].date) <= DayNumber(r[2])

\* C22: get_statistics returns the number of held records, the sum of the
\* amounts of the income records, the sum of the amounts of the expense
\* records, the first less the second, the first and the last date (none for
\* no record) and the number of error messages
C22_Statistics ==
    Called("get_statistics") =>
        /\ ret.ok
        /\ ret.value.total_transactions = Len(call.transactions)
        /\ IsTotal(ret.value.total_income, call.transactions, T_income)
        /\ IsTotal(ret.value.total_expense, call.transactions, T_expense)
        /\ IsNet(ret.value.net_balance, call.transactions)
        /\ IsDateSpan(ret.value.date_range, call.transactions)
        /\ ret.value.validation_errors_count = Len(call.validation_errors)

\* C27: the row number of a validation error is the line of the file the
\* offending row is on, the header being line 1
C27_RowNumberIsLine ==
    [][Len(validation_errors') = Len(validation_errors) + 1 =>
           validation_errors'[Len(validation_errors')].row = <<line_num'>>]_vars

\* the ids of the rows of a table
Ids(rows) == {r.id : r \in rows}

\* an operation of the database has just run: it opened a connection
Did(fn) == call'.fn = fn /\ conns' > conns

\* C23: the type of every record the menu holds in memory, and of every record
\* fetch_all and fetch_by_id return, is income, expense or transfer
C23_TypeInEnumeration ==
    /\ \A i \in 1..Len(current_transactions) :
           current_transactions[i].type \in VALID_TRANSACTION_TYPES
    /\ fetch_all(table).ok
    /\ \A i \in 1..Cardinality(table) : fetch_all(table).value[i].type \in VALID_TRANSACTION_TYPES
    /\ \A id \in 1..MaxIds :
           /\ fetch_by_id(table, id).ok
           /\ fetch_by_id(table, id).value # None =>
                  fetch_by_id(table, id).value[1].type \in VALID_TRANSACTION_TYPES

\* two Decimals of one value, whatever their exponents
SameDecimal(a, b) ==
    /\ a.kind = b.kind
    /\ a.sign = b.sign
    /\ a.kind = "finite" =>
           IF a.coef = 0 \/ b.coef = 0 THEN a.coef = b.coef
           ELSE StripZeros(a.coef, a.exp) = StripZeros(b.coef, b.exp)

\* the fetched record r is the record t as it was inserted
RoundTrip(t, r) ==
    /\ r.date = t.date
    /\ r.category = t.category
    /\ r.type = t.type
    /\ r.description = t.description
    /\ SameDecimal(r.amount, t.amount)

OrderedByDate(fetched) ==
    \A i, j \in 1..Len(fetched) : i < j => DayNumber(fetched[i].date) <= DayNumber(fetched[j].date)

\* C24: once insert_many has inserted records, fetch_all returns the rows in
\* the order of their dates, each with an id, and for each inserted record
\* a new row with the date, category, type and description of the record
\* and an amount of the same decimal value, which fetch_by_id returns as well
C24_StorageRoundTrip ==
    [][Did("insert_many") =>
        /\ fetch_all(table').ok
        /\ OrderedByDate(fetch_all(table').value)
        /\ \A i \in 1..Len(call'.transactions) :
               \E j \in 1..Cardinality(table') :
                   /\ fetch_all(table').value[j].id \notin Ids(table)
                   /\ RoundTrip(call'.transactions[i], fetch_all(table').value[j])
                   /\ fetch_by_id(table', fetch_all(table').value[j].id) =
                          Return(Some(fetch_all(table').value[j]))]_vars

\* C25: for an id no row has, fetch_by_id returns None and update_transaction
\* and delete_by_id return False, none of them raises and the table is as it
\* was; for an id a row has, update_transaction and delete_by_id return True,
\* the one writes the new values to that row and the other removes it, and
\* every other row is as it was
C25_AbsentIdIsNormal ==
    [][/\ (Did("fetch_by_id") /\ call'.id \notin Ids(table)) =>
              ret' = Return(None) /\ table' = table
       /\ (Did("update_transaction") /\ call'.id \notin Ids(table)) =>
              ret' = Return(FALSE) /\ table' = table
       /\ (Did("delete_by_id") /\ call'.id \notin Ids(table)) =>
              ret' = Return(FALSE) /\ table' = table
       /\ (Did("update_transaction") /\ call'.id \in Ids(table)) =>
              /\ ret' = Return(TRUE)
              /\ {r \in table' : r.id # call'.id} = {r \in table : r.id # call'.id}
              /\ [call'.new EXCEPT !.id = call'.id] \in table'
              /\ Ids(table') = Ids(table)
       /\ (Did("delete_by_id") /\ call'.id \in Ids(table)) =>
              ret' = Return(TRUE) /\ table' = {r \in table : r.id # call'.id}]_vars

\* update_transaction of an id no row has returned False beside rows it left alone
C25_Witness ==
    /\ call.fn = "update_transaction"
    /\ call.id \notin Ids(table)
    /\ ret = Return(FALSE)
    /\ table # {}

\* C26: every operation of the database closes the connection it opened: no
\* step leaves more connections open than were open before it
C26_ConnectionsClosed == [][conns' <= conns]_vars

\* the amount typed at the edit is one validate_amount rejects
InvalidAmountTyped(e) ==
    strip(e.amount) # <<>> /\ ~validate_amount(strip(e.amount), <<>>).ok

Edited == call'.fn = "database_menu" /\ call'.choice = 5 /\ conns' > conns

PositiveFloat(f) == f.sign = 0 /\ (f.kind = "inf" \/ f.digits > 0)

\* C29: an edit whose amount input validate_amount rejects leaves every row
\* of the table as it was, and the amount of every row of the table is
\* greater than zero
C29_InvalidAmountNoUpdate ==
    [][/\ (Edited /\ InvalidAmountTyped(call'.input)) => table' = table
       /\ \A r \in table' : PositiveFloat(r.amount)]_vars

\* C30: the ids of the rows are distinct, and a row that is new to the table
\* has an id greater than every id assigned before, the largest of which
\* sqlite_sequence holds and never lowers
C30_IdsNeverReused ==
    [][/\ \A r \in table' : r.id \notin Ids(table) => r.id > sqlite_sequence
       /\ sqlite_sequence' >= sqlite_sequence
       /\ \A r \in table' : r.id <= sqlite_sequence'
       /\ Cardinality(Ids(table')) = Cardinality(table')]_vars

\* a row inserted after a row was deleted or cleared has a new id
C30_Witness ==
    /\ call.fn = "insert_many"
    /\ Cardinality(table) < sqlite_sequence
    /\ \E r \in table : r.id = sqlite_sequence

====
